---- MODULE Spec2Model ----
(***************************************************************************)
(* ETradeProvider (daemon/src/broker_daemon/providers/etrade.py): the      *)
(* connection/session lifecycle, the background renewal task, the rate     *)
(* limiter and the two-phase order submission, as tasks of one asyncio     *)
(* event loop.  A task runs without interruption from one suspension point *)
(* to the next; the suspension points are the rate-lock wait, the gap      *)
(* sleep, the network call, AsyncClient.aclose(), awaiting the renewal     *)
(* task and the renewal interval sleep.  The audit logger and the event    *)
(* callback are external: they are taken to return without suspending and  *)
(* without raising, so _log_connection is part of the step that calls it.  *)
(***************************************************************************)
EXTENDS Integers, Sequences, FiniteSets, TLC

\* Bound: how many times start() may build a client (and so how many
\* clients and renewal tasks exist in one behaviour).
MaxStarts == 2

\* Bound: the same, in the behaviours where calls of several caller tasks
\* overlap.
MaxOverlapStarts == 1

\* MIN_REQUEST_GAP_SECONDS = 0.2, in clock ticks of 100 ms.
MIN_REQUEST_GAP_TICKS == 2

\* QUOTE_BATCH_SIZE
QUOTE_BATCH_SIZE == 25

\* Bound: the longest symbol list quote() is called with.
MaxSymbols == 60

\* Caller tasks (daemon RPC handlers) and renewal tasks.  A renewal task
\* carries the number of the client built by the start() that created it.
Callers == {11, 12}
RenewIds == 1..MaxStarts
Tasks == Callers \cup RenewIds

VARIABLES
    cfg,                    \* ETradeConfig: consumer credentials, account_id_key
    token_file,             \* the credential file (token_path)
    _client,                \* self._client: 0 is None, else the client's number
    open,                   \* clients built and not yet closed (aclose)
    n_clients,              \* clients built so far
    _token_valid,           \* self._token_valid
    _oauth_token,           \* self._oauth_token
    _oauth_token_secret,    \* self._oauth_token_secret
    _connected_at,          \* self._connected_at is not None
    _renew_task,            \* self._renew_task: 0 is None, else the task
    _account_id_key,        \* self._account_id_key
    holder,                 \* self._rate_lock: the task holding it, 0 when free
    waiters,                \* self._rate_lock: tasks queued on it, FIFO
    since_stamp,            \* time.monotonic() - self._last_request_monotonic, saturated
                            \* (_last_request_monotonic starts at 0.0, long ago)
    gap_remaining,          \* ticks left of the gap sleep of the lock holder
    pc,                     \* every task's position
    ended,                  \* history: the call that returned or raised in the last step
                            \* (a public operation, or one renewal of the renewal loop)
    since_begin,            \* history: ticks since the last network call began, saturated
    last_gap,               \* history: since_begin when the last network call began
    auth_lost,              \* history: the renewal loop saw 401/403 and no start() succeeded since
    applied                 \* history: the module-level function applied in the last
                            \* step, with its argument and its result

vars == <<cfg, token_file, _client, open, n_clients, _token_valid, _oauth_token,
          _oauth_token_secret, _connected_at, _renew_task,
          _account_id_key, holder, waiters, since_stamp, gap_remaining, pc, ended,
          since_begin, last_gap, auth_lost, applied>>

\* No call ended in the last step.
NoCall == [t |-> 0, op |-> "-", out |-> "-", k |-> 0, ph |-> "-",
           suggestion |-> "", req |-> <<>>, rows |-> <<>>, arg |-> <<>>,
           ret |-> <<>>, body |-> "-", log |-> <<>>]

\* The provider and the tasks as one value, so that a handler is a function
\* from the state it finds to the state it leaves.
St == [_client |-> _client, open |-> open, n_clients |-> n_clients,
       _token_valid |-> _token_valid, _oauth_token |-> _oauth_token,
       _oauth_token_secret |-> _oauth_token_secret,
       _connected_at |-> _connected_at,
       _renew_task |-> _renew_task, _account_id_key |-> _account_id_key,
       holder |-> holder, waiters |-> waiters, since_stamp |-> since_stamp,
       gap_remaining |-> gap_remaining, pc |-> pc, ended |-> NoCall,
       since_begin |-> since_begin, last_gap |-> last_gap, auth_lost |-> auth_lost]

Become(s) ==
    /\ _client' = s._client
    /\ open' = s.open
    /\ n_clients' = s.n_clients
    /\ _token_valid' = s._token_valid
    /\ _oauth_token' = s._oauth_token
    /\ _oauth_token_secret' = s._oauth_token_secret
    /\ _connected_at' = s._connected_at
    /\ _renew_task' = s._renew_task
    /\ _account_id_key' = s._account_id_key
    /\ holder' = s.holder
    /\ waiters' = s.waiters
    /\ since_stamp' = s.since_stamp
    /\ gap_remaining' = s.gap_remaining
    /\ pc' = s.pc
    /\ ended' = s.ended
    /\ since_begin' = s.since_begin
    /\ last_gap' = s.last_gap
    /\ auth_lost' = s.auth_lost
    /\ UNCHANGED <<cfg, token_file, applied>>

----------------------------------------------------------------------------
\* Text.  A Python str is the sequence of its characters, so that strip(),
\* upper(), lower(), startswith() and `in` are computed on it.

LowerCase ==
    <<"a", "b", "c", "d", "e", "f", "g", "h", "i", "j", "k", "l",
      "m", "n", "o", "p", "q", "r", "s", "t", "u", "v", "w", "x",
      "y", "z">>
UpperCase ==
    <<"A", "B", "C", "D", "E", "F", "G", "H", "I", "J", "K", "L",
      "M", "N", "O", "P", "Q", "R", "S", "T", "U", "V", "W", "X",
      "Y", "Z">>

\* c.upper() and c.lower() of one character.
upper_char(c) ==
    IF \E i \in 1..Len(LowerCase) : LowerCase[i] = c
    THEN UpperCase[CHOOSE i \in 1..Len(LowerCase) : LowerCase[i] = c]
    ELSE c
lower_char(c) ==
    IF \E i \in 1..Len(UpperCase) : UpperCase[i] = c
    THEN LowerCase[CHOOSE i \in 1..Len(UpperCase) : UpperCase[i] = c]
    ELSE c

\* str.upper(), str.lower()
upper(x) == [i \in 1..Len(x) |-> upper_char(x[i])]
lower(x) == [i \in 1..Len(x) |-> lower_char(x[i])]

\* str.strip(): without its leading and trailing white space.
strip(x) ==
    LET black == {i \in 1..Len(x) : x[i] # " "}
    IN  IF black = {} THEN <<>>
        ELSE SubSeq(x, CHOOSE i \in black : \A j \in black : i <= j,
                       CHOOSE i \in black : \A j \in black : i >= j)

\* x.startswith(prefix)
startswith(x, prefix) ==
    Len(x) >= Len(prefix) /\ SubSeq(x, 1, Len(prefix)) = prefix

\* `sub in x`
contains(x, sub) ==
    \E i \in 0..(Len(x) - Len(sub)) : SubSeq(x, i + 1, i + Len(sub)) = sub

\* A value that is None or a str, as `str(value or "")` reads it.
None == [none |-> TRUE, str |-> <<>>]
Text(x) == [none |-> FALSE, str |-> x]
str_or_empty(value) == IF value.none THEN <<>> ELSE value.str

----------------------------------------------------------------------------
\* Exceptions.

\* The remediation suggestions an error may carry ("" is None; the source
\* writes the command of the first one between backquotes).
AUTH_REQUIRED_SUGGESTION == "Run 'broker auth etrade' to create fresh E*Trade tokens."
CONSUMER_SUGGESTION ==
    "Set broker.etrade.consumer_key and broker.etrade.consumer_secret in config or env."
ACCOUNT_SUGGESTION == "Verify your account has brokerage access and API permissions."
TIMEOUT_SUGGESTION ==
    "Retry and consider increasing runtime.request_timeout_seconds if needed."
NETWORK_SUGGESTION == "Check network connectivity and E*Trade API availability."
RATE_SUGGESTION == "Retry with lower request frequency."
SYMBOL_SUGGESTION == "Confirm symbol formatting and market data availability."

\* BrokerError(code, message, details=..., suggestion=...): the code and the
\* two details the handlers read (status_code, 0 when absent; auth_expired).
BrokerError(code, status_code, auth_expired) ==
    [type |-> "BrokerError", code |-> code, status_code |-> status_code,
     auth_expired |-> auth_expired, suggestion |-> ""]

\* The same error raised with suggestion=...
Suggesting(exc, suggestion) == [exc EXCEPT !.suggestion = suggestion]

\* Any exception that is not a BrokerError.
PyException(type) ==
    [type |-> type, code |-> "-", status_code |-> 0, auth_expired |-> FALSE,
     suggestion |-> ""]

NoExc == PyException("-")

\* What the caller sees of an exception: the ErrorCode, or the Python type.
Raised(exc) == IF exc.type = "BrokerError" THEN exc.code ELSE exc.type

----------------------------------------------------------------------------
\* Task positions.

\* req: the requests the call has sent (phase and what the request
\* carried); rows: the accounts list it read; arg: its argument; ret: the
\* value it is building.
Idle == [op |-> "idle", ph |-> "-", at |-> "-", k |-> 0, err |-> NoExc,
         pid |-> "", sent |-> "", cancel |-> FALSE, req |-> <<>>,
         rows |-> <<>>, arg |-> <<>>, ret |-> <<>>]
NotCreated == [Idle EXCEPT !.op = "none"]

Finished(p) == p.at \in {"done", "cancelled"}
Running(p) == p.op = "renew_loop" /\ ~Finished(p)

\* A call of a public operation ends: it returns ("ok") or raises.  The
\* record keeps the client the call built (k) and the phase it ended in;
\* body is the kind of body of the success response the call ended on, log
\* the invocations of the audit logger and the event callback it made.
Return(s, t, out) ==
    [s EXCEPT !.pc[t] = Idle,
              !.ended = [t |-> t, op |-> s.pc[t].op, out |-> out,
                         k |-> s.pc[t].k, ph |-> s.pc[t].ph,
                         suggestion |-> "", req |-> s.pc[t].req,
                         rows |-> s.pc[t].rows, arg |-> s.pc[t].arg,
                         ret |-> s.pc[t].ret, body |-> "-", log |-> <<>>]]

\* The call of task t ends by raising exc.
Propagate(s, t, exc) ==
    [Return(s, t, Raised(exc)) EXCEPT !.ended.suggestion = exc.suggestion]

\* A faulty _log_connection: the event callback is invoked first.
_log_connection_callback_first(event) ==
    << [sink |-> "event_cb", event |-> event], [sink |-> "audit", event |-> event] >>

\* _log_connection(event, details): the audit logger is awaited, then the
\* event callback; the result is the invocations made, in order.
_log_connection(event) ==
    << [sink |-> "audit", event |-> event], [sink |-> "event_cb", event |-> event] >>

\* One _renew_access_token() call of the renewal loop k ends.
RenewEnded(s, k, out) ==
    [s EXCEPT !.pc[k].req = <<>>,
              !.ended = [NoCall EXCEPT !.t = k, !.op = "renew_loop", !.out = out,
                                       !.ph = "renew", !.req = s.pc[k].req]]

----------------------------------------------------------------------------
\* Connection state.

\* is_connected: bool(client and token_valid and oauth_token and oauth_token_secret)
is_connected(s) ==
    /\ s._client # 0
    /\ s._token_valid
    /\ s._oauth_token # <<>>
    /\ s._oauth_token_secret # <<>>

\* status(): the snapshot, with connected_at as "is not None" and
\* account_id as the cached id ("" for None).
status(s) ==
    [connected |-> is_connected(s),
     connected_at |-> s._connected_at,
     account_id |-> s._account_id_key]

\* A faulty validation: the credentials are not stripped.
_validate_consumer_credentials_unstripped ==
    cfg.consumer_key # <<>> /\ cfg.consumer_secret # <<>>

\* _validate_consumer_credentials: both stripped credentials non-empty.
_validate_consumer_credentials ==
    strip(cfg.consumer_key) # <<>> /\ strip(cfg.consumer_secret) # <<>>

\* The credential file: missing, or its content, which is not JSON, JSON but
\* no object, or an object with its oauth_token and oauth_token_secret
\* members (None when absent or null).
File(kind, oauth_token, oauth_token_secret) ==
    [kind |-> kind, oauth_token |-> oauth_token,
     oauth_token_secret |-> oauth_token_secret]
MissingFile == File("missing", None, None)

\* save_etrade_tokens: the object written has the two tokens as given.
save_etrade_tokens(oauth_token, oauth_token_secret) ==
    File("object", Text(oauth_token), Text(oauth_token_secret))

\* load_etrade_tokens: None (<<>>) for a missing file, for content that is
\* not JSON and for JSON that is no object; else the two members, stripped,
\* and None when one of them is empty.
load_etrade_tokens(file) ==
    IF file.kind # "object" THEN <<>>
    ELSE LET oauth_token == strip(str_or_empty(file.oauth_token))
             oauth_token_secret == strip(str_or_empty(file.oauth_token_secret))
         IN  IF oauth_token = <<>> \/ oauth_token_secret = <<>> THEN <<>>
             ELSE <<oauth_token, oauth_token_secret>>

----------------------------------------------------------------------------
\* Exception handlers.

\* A faulty start(): the except clause re-raises without closing the client.
start_except_keeps_client(s, t, exc) == Propagate(s, t, exc)

\* _close_client() as start()'s except clause runs it, then `raise`:
\* aclose() marks the client closed and suspends; with no client the
\* exception propagates at once.
start_except(s, t, exc) ==
    IF s._client # 0
    THEN [s EXCEPT !.open = @ \ {s._client},
                   !.pc[t].at = "aclose", !.pc[t].err = exc]
    ELSE Propagate(s, t, exc)

\* The except clause of _renew_access_token: a BrokerError whose details
\* carry status_code 401 or 403 clears the flag and is replaced by an
\* auth_expired error; anything else passes through.
_renew_access_token_except(s, exc) ==
    IF exc.type = "BrokerError" /\ exc.status_code \in {401, 403}
    THEN [s |-> [s EXCEPT !._token_valid = FALSE],
          exc |-> Suggesting(BrokerError("IB_DISCONNECTED", 0, TRUE),
                             AUTH_REQUIRED_SUGGESTION)]
    ELSE [s |-> s, exc |-> exc]

\* A faulty renewal loop: any failure of a renewal ends the loop.
_renew_loop_except_gives_up(s, k, exc) ==
    RenewEnded([s EXCEPT !.pc[k].at = "done"], k, Raised(exc))

\* The except clauses of _renew_loop: a BrokerError that is auth_expired
\* logs the disconnect and ends the loop; every other failure is logged and
\* the loop goes back to its interval sleep.
_renew_loop_except(s, k, exc) ==
    IF exc.type = "BrokerError" /\ exc.auth_expired
    THEN [RenewEnded([s EXCEPT !.pc[k].at = "done", !.auth_lost = TRUE],
                     k, "auth_expired")
            EXCEPT !.ended.log = _log_connection("disconnected")]
    ELSE RenewEnded([s EXCEPT !.pc[k].at = "sleep"], k, Raised(exc))

\* An exception leaves _request / _request_json in task id: it goes to the
\* handlers of the operation the task is running.
Raise(s, id, exc) ==
    LET p == s.pc[id]
    IN  CASE p.op = "start" /\ p.ph = "renew" ->
                LET r == _renew_access_token_except(s, exc)
                IN  start_except(r.s, id, r.exc)
          [] p.op = "start" /\ p.ph # "renew" ->
                start_except(s, id, exc)
          [] p.op = "renew_loop" ->
                LET r == _renew_access_token_except(s, exc)
                IN  _renew_loop_except(r.s, id, r.exc)
          [] OTHER -> Propagate(s, id, exc)

----------------------------------------------------------------------------
\* The rate limiter and the network call.

\* asyncio.Lock.release(): the lock passes to the first waiter, if any.
release(s) ==
    IF s.waiters # <<>>
    THEN [s EXCEPT !.holder = Head(s.waiters), !.waiters = Tail(s.waiters)]
    ELSE [s EXCEPT !.holder = 0]

\* `await self._client.request(...)` in _request: self._client is read when
\* the throttle has returned.  None has no attribute request; a client that
\* aclose() has marked closed refuses to send (RuntimeError); otherwise the
\* network call begins.
_request_send(s, id) ==
    IF s._client = 0 THEN Raise(s, id, PyException("AttributeError"))
    ELSE IF s._client \notin s.open THEN Raise(s, id, PyException("RuntimeError"))
    ELSE [s EXCEPT !.pc[id].at = "inflight",
                   !.pc[id].req = Append(@, [ph |-> s.pc[id].ph,
                                             sent |-> s.pc[id].sent]),
                   !.last_gap = s.since_begin, !.since_begin = 0]

\* The end of _throttle: record the new timestamp, release the guard; the
\* request follows without a suspension.
_throttle_stamp(s, id) ==
    _request_send(release([s EXCEPT !.since_stamp = 0]), id)

\* A faulty throttle: the remaining gap is not slept.
_throttle_locked_no_sleep(s, id) == _throttle_stamp(s, id)

\* _throttle with the guard held: sleep for the rest of the gap if the last
\* timestamp is less than the gap old.
_throttle_locked(s, id) ==
    IF s.since_stamp < MIN_REQUEST_GAP_TICKS
    THEN [s EXCEPT !.pc[id].at = "gapsleep",
                   !.gap_remaining = MIN_REQUEST_GAP_TICKS - s.since_stamp]
    ELSE _throttle_stamp(s, id)

\* _throttle: `async with self._rate_lock` takes a free lock at once and
\* queues behind a held one.
_throttle(s, id) ==
    IF s.holder = 0
    THEN _throttle_locked([s EXCEPT !.holder = id], id)
    ELSE [s EXCEPT !.waiters = Append(@, id), !.pc[id].at = "lockwait"]

\* A faulty guard: it never raises.
ensure_connected_passes(s) == NoExc

\* ensure_connected(): None when connected, else the error it raises.
ensure_connected(s) ==
    IF is_connected(s) THEN NoExc
    ELSE Suggesting(BrokerError("IB_DISCONNECTED", 0, FALSE),
                    AUTH_REQUIRED_SUGGESTION)

\* _request up to its first suspension: the ensure_connected() guard when
\* require_connected, the check that a client exists, the throttle.
_request(s, id, ph, require_connected) ==
    LET s1 == [s EXCEPT !.pc[id].ph = ph]
    IN  IF require_connected /\ ensure_connected(s1) # NoExc
        THEN Raise(s1, id, ensure_connected(s1))
        ELSE IF s1._client = 0
        THEN Raise(s1, id, Suggesting(BrokerError("IB_DISCONNECTED", 0, FALSE),
                                      AUTH_REQUIRED_SUGGESTION))
        ELSE _throttle(s1, id)

----------------------------------------------------------------------------
\* JSON values as the extractors see them: null, a string or number (its
\* text; "" is the empty string) and a JSON array or object found where a
\* scalar is expected (unhashable in Python).

Null == [t |-> "null", v |-> ""]
Str(x) == [t |-> "str", v |-> x]
Unhashable == [t |-> "list", v |-> ""]

\* Python truthiness, as `a or b` uses it.
Truthy(v) == (v.t = "str" /\ v.v # "") \/ v.t = "list"
Or(a, b) == IF Truthy(a) THEN a ELSE b

\* A row of PreviewIds: an object with its two candidate keys, or a scalar.
ObjRow(a, b) == [dict |-> TRUE, previewId |-> a, PreviewId |-> b, scalar |-> Null]
ScalarRow(v) == [dict |-> FALSE, previewId |-> Null, PreviewId |-> Null, scalar |-> v]

\* A preview payload: whether PreviewOrderResponse is an object, its
\* PreviewIds coerced by _as_list, and its top-level previewId / PreviewId.
PreviewPayload(isdict, rows, a, b) ==
    [response |-> isdict, PreviewIds |-> rows, previewId |-> a, PreviewId |-> b]

Extracted(id) == [raised |-> "-", id |-> id]
ExtractRaised(type) == [raised |-> type, id |-> ""]

\* `value not in {None, ""}` then `return str(value)`: hashing an array or
\* object raises TypeError; null and "" are skipped (next).
TakeValue(value, next) ==
    IF value.t = "list" THEN ExtractRaised("TypeError")
    ELSE IF value.t = "str" /\ value.v # "" THEN Extracted(value.v)
    ELSE next

\* The loop of _extract_preview_id over _as_list(raw_preview_ids), from row
\* i on, followed by the loop over the top-level keys.
RECURSIVE extract_preview_rows(_, _)
extract_preview_rows(response, i) ==
    IF i > Len(response.PreviewIds)
    THEN TakeValue(response.previewId,
                   TakeValue(response.PreviewId, Extracted("")))
    ELSE LET row == response.PreviewIds[i]
             value == IF row.dict THEN Or(row.previewId, row.PreviewId)
                      ELSE row.scalar
         IN  TakeValue(value, extract_preview_rows(response, i + 1))

\* _extract_preview_id: "" stands for None.
_extract_preview_id(payload) ==
    IF ~payload.response THEN Extracted("")
    ELSE extract_preview_rows(payload, 1)

NoPreview == PreviewPayload(FALSE, <<>>, Null, Null)

\* The preview payloads a remote may answer with.
PreviewPayloads ==
    { NoPreview,
      PreviewPayload(TRUE, <<>>, Null, Null),
      PreviewPayload(TRUE, <<ObjRow(Str("P1"), Null)>>, Null, Null),
      PreviewPayload(TRUE, <<ObjRow(Str(""), Null)>>, Str("P2"), Null),
      PreviewPayload(TRUE, <<ScalarRow(Str("P2")), ObjRow(Null, Str("P1"))>>, Null, Null),
      PreviewPayload(TRUE, <<ScalarRow(Unhashable)>>, Null, Null) }

\* The order status vocabulary.

Submitted == <<"S", "u", "b", "m", "i", "t", "t", "e", "d">>

Acknowledged == <<"A", "c", "k", "n", "o", "w", "l", "e", "d", "g", "e", "d">>

PendingSubmit == <<"P", "e", "n", "d", "i", "n", "g", "S", "u", "b", "m", "i", "t">>

Filled == <<"F", "i", "l", "l", "e", "d">>

Cancelled == <<"C", "a", "n", "c", "e", "l", "l", "e", "d">>

Rejected == <<"R", "e", "j", "e", "c", "t", "e", "d">>

Inactive == <<"I", "n", "a", "c", "t", "i", "v", "e">>

\* The vocabulary table of _normalize_order_status: <<key, canonical value>>.
\* A faulty table: the value given for FILLED is itself a key of the table
\* with another value.
mapping_filled_is_open ==
    << <<<<"O", "P", "E", "N">>, Submitted>>,
       <<<<"W", "O", "R", "K", "I", "N", "G">>, Submitted>>,
       <<<<"A", "C", "K", "N", "O", "W", "L", "E", "D", "G", "E", "D">>, Acknowledged>>,
       <<<<"P", "E", "N", "D", "I", "N", "G">>, PendingSubmit>>,
       <<<<"P", "E", "N", "D", "I", "N", "G", "_", "S", "U", "B", "M", "I", "T">>, PendingSubmit>>,
       <<<<"P", "E", "N", "D", "I", "N", "G", " ", "C", "A", "N", "C", "E", "L">>, PendingSubmit>>,
       <<<<"E", "X", "E", "C", "U", "T", "E", "D">>, Filled>>,
       <<<<"F", "I", "L", "L", "E", "D">>, <<"O", "p", "e", "n">>>>,
       <<<<"C", "A", "N", "C", "E", "L", "E", "D">>, Cancelled>>,
       <<<<"C", "A", "N", "C", "E", "L", "L", "E", "D">>, Cancelled>>,
       <<<<"R", "E", "J", "E", "C", "T", "E", "D">>, Rejected>>,
       <<<<"I", "N", "A", "C", "T", "I", "V", "E">>, Inactive>> >>

mapping ==
    << <<<<"O", "P", "E", "N">>, Submitted>>,
       <<<<"W", "O", "R", "K", "I", "N", "G">>, Submitted>>,
       <<<<"A", "C", "K", "N", "O", "W", "L", "E", "D", "G", "E", "D">>, Acknowledged>>,
       <<<<"P", "E", "N", "D", "I", "N", "G">>, PendingSubmit>>,
       <<<<"P", "E", "N", "D", "I", "N", "G", "_", "S", "U", "B", "M", "I", "T">>, PendingSubmit>>,
       <<<<"P", "E", "N", "D", "I", "N", "G", " ", "C", "A", "N", "C", "E", "L">>, PendingSubmit>>,
       <<<<"E", "X", "E", "C", "U", "T", "E", "D">>, Filled>>,
       <<<<"F", "I", "L", "L", "E", "D">>, Filled>>,
       <<<<"C", "A", "N", "C", "E", "L", "E", "D">>, Cancelled>>,
       <<<<"C", "A", "N", "C", "E", "L", "L", "E", "D">>, Cancelled>>,
       <<<<"R", "E", "J", "E", "C", "T", "E", "D">>, Rejected>>,
       <<<<"I", "N", "A", "C", "T", "I", "V", "E">>, Inactive>> >>

\* mapping.get(normalized, default)
mapping_get(normalized, default) ==
    IF \E i \in 1..Len(mapping) : mapping[i][1] = normalized
    THEN mapping[CHOOSE i \in 1..Len(mapping) : mapping[i][1] = normalized][2]
    ELSE default

\* A lookup of the text as it was received, neither trimmed nor upper-cased.
_normalize_order_status_as_received(value) ==
    LET normalized == str_or_empty(value)
    IN  mapping_get(normalized, IF normalized = <<>> THEN Submitted ELSE value.str)

\* _normalize_order_status(value): value is None or a text.
_normalize_order_status(value) ==
    LET normalized == upper(strip(str_or_empty(value)))
    IN  mapping_get(normalized, IF normalized = <<>> THEN Submitted ELSE value.str)

\* _extract_place_status(payload): the values found under orderStatus,
\* OrderStatus, status, Status of the PlaceOrderResponse, in that order (None
\* for an absent key); not_a_dict when PlaceOrderResponse is no object.
RECURSIVE first_status(_, _)
first_status(values, i) ==
    IF i > Len(values) THEN Submitted
    ELSE IF values[i] # None /\ values[i] # Text(<<>>) THEN values[i].str
    ELSE first_status(values, i + 1)

_extract_place_status(not_a_dict, values) ==
    IF not_a_dict THEN Submitted ELSE first_status(values, 1)

\* The "status" member of place_order's result.
place_order_status(not_a_dict, values) ==
    _normalize_order_status(Text(_extract_place_status(not_a_dict, values)))

\* A row of OrderIds: an object with its two candidate keys, or a scalar.
OrderIdRow(a, b) == [dict |-> TRUE, orderId |-> a, OrderId |-> b, scalar |-> Null]
ScalarOrderId(v) == [dict |-> FALSE, orderId |-> Null, OrderId |-> Null, scalar |-> v]

\* A place payload: whether PlaceOrderResponse is an object, its OrderIds
\* coerced by _as_list, its top-level orderId / OrderId, and the values
\* under its four status keys (None for an absent key).
PlacePayload(isdict, rows, a, b, values) ==
    [response |-> isdict, OrderIds |-> rows, orderId |-> a, OrderId |-> b,
     values |-> values]

\* The loop of _extract_order_id over _as_list(raw_order_ids), from row i
\* on, followed by the loop over the top-level keys.
RECURSIVE extract_order_rows(_, _)
extract_order_rows(response, i) ==
    IF i > Len(response.OrderIds)
    THEN TakeValue(response.orderId,
                   TakeValue(response.OrderId, Extracted("")))
    ELSE LET row == response.OrderIds[i]
             value == IF row.dict THEN Or(row.orderId, row.OrderId)
                      ELSE row.scalar
         IN  TakeValue(value, extract_order_rows(response, i + 1))

\* _extract_order_id: "" stands for None.
_extract_order_id(payload) ==
    IF ~payload.response THEN Extracted("")
    ELSE extract_order_rows(payload, 1)

\* The payload {} and the one with an empty PlaceOrderResponse.
NoPlace == PlacePayload(FALSE, <<>>, Null, Null, <<None, None, None, None>>)
EmptyPlace == PlacePayload(TRUE, <<>>, Null, Null, <<None, None, None, None>>)

\* The place payloads a remote may answer with.
PlacePayloads ==
    { EmptyPlace,
      PlacePayload(TRUE, <<OrderIdRow(Str("7"), Null)>>, Null, Null,
                   <<Text(<<"O", "P", "E", "N">>), None, None, None>>),
      PlacePayload(TRUE, <<OrderIdRow(Str(""), Null)>>, Str("X1"), Null,
                   <<None, None, Text(<<"E", "X", "E", "C", "U", "T", "E", "D">>), None>>),
      PlacePayload(TRUE, <<ScalarOrderId(Unhashable)>>, Null, Null,
                   <<None, None, None, None>>) }

\* An int or None.
IntOf(n) == [null |-> FALSE, n |-> n]
NullInt == [null |-> TRUE, n |-> 0]

\* int(value) for the texts that are numerals.
Numerals == [ x \in {"7", "8"} |-> IF x = "7" THEN 7 ELSE 8 ]

\* _as_int(value): None for None ("" here) and for a text int() rejects.
_as_int(value) ==
    IF value = "" THEN NullInt
    ELSE IF value \in DOMAIN Numerals THEN IntOf(Numerals[value])
    ELSE NullInt

\* The accountIdKey values (stripped) of the rows of an accounts list.
AccountRows == { <<>>, <<"", "A1", "A2">> }

\* A JSON value read where an id is expected: null (or absent), a string
\* or number (its text), or an array or object.
JNull == [k |-> "null", str |-> <<>>]
JText(x) == [k |-> "str", str |-> x]
JList == [k |-> "list", str |-> <<>>]

\* `str(value) if value not in {None, ""} else None`: hashing an array or
\* object raises TypeError.
Parsed(raised, value) == [raised |-> raised, value |-> value]
parse_id(value) ==
    IF value.k = "list" THEN Parsed("TypeError", None)
    ELSE IF value.k = "str" /\ value.str # <<>> THEN Parsed("-", Text(value.str))
    ELSE Parsed("-", None)

\* A row of the orders list: its orderId and its clientOrderId (of the row
\* or of its first OrderDetail).
OrderRow(orderId, clientOrderId) ==
    [orderId |-> orderId, clientOrderId |-> clientOrderId]

\* _parse_order_row, the two ids of its result.
_parse_order_row(order) ==
    LET order_id == parse_id(order.orderId)
        client_order_id == parse_id(order.clientOrderId)
    IN  IF order_id.raised # "-" THEN [raised |-> order_id.raised,
                                       order_id |-> None, client_order_id |-> None]
        ELSE [raised |-> client_order_id.raised, order_id |-> order_id.value,
              client_order_id |-> client_order_id.value]

\* The loop of _find_order_id_by_client_id over the rows, from row i on:
\* the order id of the first row whose stripped client id is wanted and
\* whose order id is not empty, None when there is none.
RECURSIVE find_order_id(_, _, _)
find_order_id(rows, i, wanted) ==
    IF i > Len(rows) THEN Parsed("-", None)
    ELSE LET parsed == _parse_order_row(rows[i])
         IN  IF parsed.raised # "-" THEN Parsed(parsed.raised, None)
             ELSE IF strip(str_or_empty(parsed.client_order_id)) # wanted
             THEN find_order_id(rows, i + 1, wanted)
             ELSE IF str_or_empty(parsed.order_id) # <<>>
             THEN Parsed("-", parsed.order_id)
             ELSE find_order_id(rows, i + 1, wanted)

\* The orders lists a remote may answer with.
OrderRows ==
    { <<>>,
      <<OrderRow(JText(<<"7">>), JText(<<" ", "c", "1", " ">>))>>,
      <<OrderRow(JNull, JText(<<"c", "1">>)),
        OrderRow(JText(<<"8">>), JText(<<"c", "1">>))>>,
      <<OrderRow(JText(<<"9">>), JText(<<"z", "z">>))>>,
      <<OrderRow(JList, JText(<<"z", "z">>))>> }

\* _extract_cancelled over the values found under cancelStatus,
\* CancelStatus, status, Status (those that are not None), from value i on.
RECURSIVE _extract_cancelled(_, _)
_extract_cancelled(values, i) ==
    IF i > Len(values) THEN TRUE
    ELSE LET normalized == lower(strip(values[i]))
         IN  IF normalized \in {<<"s", "u", "c", "c", "e", "s", "s">>, <<"o", "k">>,
                               <<"c", "a", "n", "c", "e", "l", "l", "e", "d">>,
                               <<"c", "a", "n", "c", "e", "l", "e", "d">>}
             THEN TRUE
             ELSE IF normalized \in {<<"f", "a", "i", "l", "e", "d">>, <<"e", "r", "r", "o", "r">>}
             THEN FALSE
             ELSE _extract_cancelled(values, i + 1)

\* The status values of the cancel responses a remote may answer with.
CancelRows == { <<>>, <<<<" ", "F", "a", "i", "l", "e", "d">>>>, <<<<"u", "n", "k", "n", "o", "w", "n">>, <<"O", "K">>>> }

\* The symbols of the rows of the quote responses a remote may answer
\* with (<<>>: a row without a symbol).
QuoteRows == { <<<<"a", "a">>>>, <<<<>>, <<"b", "b">>, <<"c", "c">>>> }

----------------------------------------------------------------------------
\* Responses.  net: the call returned ("ok"), timed out (httpx.TimeoutException)
\* or failed in the network (httpx.RequestError).  body: the content is
\* empty, not JSON, JSON but no object, or an object.

Response(net, status_code, body, rows, preview) ==
    [net |-> net, status |-> status_code, body |-> body, rows |-> rows, preview |-> preview,
     raw |-> <<>>]

\* The same response with raw as the text of its error message.
WithRaw(r, raw) == [r EXCEPT !.raw = raw]

Failures ==
    { Response("timeout", 0, "empty", <<>>, NoPreview),
      Response("neterr", 0, "empty", <<>>, NoPreview) }
    \cup { Response("ok", st, "empty", <<>>, NoPreview) : st \in {401, 403, 429, 500} }

Success(body, rows, preview) == Response("ok", 200, body, rows, preview)

\* Failures of a quote request whose message names the symbol or not.
QuoteFailures ==
    { WithRaw(Response("ok", st, "dict", <<>>, NoPreview), raw) :
        st \in {400, 500},
        raw \in {<<>>, <<"N", "o", " ", "S", "y", "m", "b", "o", "l">>} }

\* What the remote may answer to the request of phase ph.
Responses(ph) ==
    Failures \cup
    CASE ph = "renew" -> { Success("empty", <<>>, NoPreview) }
      [] ph = "quote" ->
            QuoteFailures
            \cup { Success(b, <<>>, NoPreview) : b \in {"empty", "nonjson", "nondict"} }
            \cup { Success("dict", rows, NoPreview) : rows \in QuoteRows }
      [] ph = "orders" ->
            { Success(b, <<>>, NoPreview) : b \in {"nonjson", "nondict"} }
            \cup { Success("dict", rows, NoPreview) : rows \in OrderRows }
      [] ph = "cancel" ->
            { Success(b, <<>>, NoPreview) : b \in {"empty", "nonjson", "nondict"} }
            \cup { Success("dict", rows, NoPreview) : rows \in CancelRows }
      [] ph \in {"discover", "acct"} ->
            { Success(b, <<>>, NoPreview) : b \in {"nonjson", "nondict"} }
            \cup { Success("dict", rows, NoPreview) : rows \in AccountRows }
      [] ph = "preview" ->
            { Success(b, <<>>, NoPreview) : b \in {"nonjson", "nondict"} }
            \cup { Success("dict", <<>>, p) : p \in PreviewPayloads }
      [] ph = "place" ->
            { Success(b, <<>>, NoPreview) : b \in {"empty", "nonjson", "nondict"} }
            \cup { Success("dict", <<p>>, NoPreview) : p \in PlacePayloads }
      [] OTHER ->
            { Success(b, <<>>, NoPreview) : b \in {"empty", "nonjson", "nondict", "dict"} }

\* The path of the request of phase ph, by segments, and its operation name.
Path(ph) ==
    CASE ph = "renew" -> <<"oauth", "renew_access_token">>
      [] ph \in {"discover", "acct"} -> <<"v1", "accounts", "list">>
      [] ph = "quote" -> <<"v1", "market", "quote", "symbols">>
      [] ph = "preview" -> <<"v1", "accounts", "id", "orders", "preview">>
      [] ph = "place" -> <<"v1", "accounts", "id", "orders", "place">>
      [] ph = "orders" -> <<"v1", "accounts", "id", "orders">>
      [] ph = "cancel" -> <<"v1", "accounts", "id", "orders", "cancel">>
      [] OTHER -> <<"v1", "accounts", "id", "portfolio">>
Operation(ph) ==
    CASE ph = "renew" -> "renew_access_token"
      [] ph \in {"discover", "acct"} -> "accounts_list"
      [] ph = "quote" -> "quote"
      [] ph = "preview" -> "order_preview"
      [] ph = "place" -> "order_place"
      [] ph = "orders" -> "orders_list"
      [] ph = "cancel" -> "cancel_order"
      [] OTHER -> "positions"

\* "/v1/market/quote", and "symbol"
QuotePath == <<"v1", "market", "quote">>
SymbolTerm == <<"s", "y", "m", "b", "o", "l">>

\* The BrokerError _raise_http_error raises, as a function of the status,
\* the operation, the path and raw (the error message of the body, else
\* its text): code, suggestion ("" is None) and details.
http_error(status_code, operation, path, raw) ==
    LET lowered == lower(raw)
        kind == IF status_code \in {401, 403}
                THEN <<"IB_DISCONNECTED", AUTH_REQUIRED_SUGGESTION>>
                ELSE IF status_code = 429
                THEN <<"RATE_LIMITED", RATE_SUGGESTION>>
                ELSE IF /\ startswith(path, QuotePath)
                        /\ status_code \in {400, 404} \/ contains(lowered, SymbolTerm)
                THEN <<"INVALID_SYMBOL", SYMBOL_SUGGESTION>>
                ELSE <<"IB_REJECTED", "">>
    IN  [code |-> kind[1], suggestion |-> kind[2],
         details |-> [operation |-> operation, status_code |-> status_code,
                      path |-> path]]

\* _raise_http_error in task id, on the response r to its request.
\* A faulty _raise_http_error: 401 and 403 clear the token-valid flag.
_raise_http_error_clears_flag(s, id, r) ==
    LET ph == s.pc[id].ph
        e == http_error(r.status, Operation(ph), Path(ph), r.raw)
        s1 == IF r.status \in {401, 403} THEN [s EXCEPT !._token_valid = FALSE] ELSE s
    IN  Raise(s1, id, Suggesting(BrokerError(e.code, e.details.status_code, FALSE),
                                 e.suggestion))

_raise_http_error(s, id, r) ==
    LET ph == s.pc[id].ph
        e == http_error(r.status, Operation(ph), Path(ph), r.raw)
    IN  Raise(s, id, Suggesting(BrokerError(e.code, e.details.status_code, FALSE),
                                e.suggestion))

\* Whether _request raises on r, and its except clauses and status check.
RequestFails(r) == r.net # "ok" \/ r.status >= 400

\* A faulty _request: a call that timed out is sent once more.
_request_fail_retries(s, id, r) ==
    IF r.net = "timeout"
    THEN IF Len(s.pc[id].req) < 2 \/ s.pc[id].req[Len(s.pc[id].req) - 1] # s.pc[id].req[Len(s.pc[id].req)]
         THEN _throttle(s, id)
         ELSE Raise(s, id, Suggesting(BrokerError("TIMEOUT", 0, FALSE),
                                      TIMEOUT_SUGGESTION))
    ELSE IF r.net = "neterr"
    THEN Raise(s, id, Suggesting(BrokerError("IB_DISCONNECTED", 0, FALSE),
                                 NETWORK_SUGGESTION))
    ELSE _raise_http_error(s, id, r)

_request_fail(s, id, r) ==
    IF r.net = "timeout"
    THEN Raise(s, id, Suggesting(BrokerError("TIMEOUT", 0, FALSE),
                                 TIMEOUT_SUGGESTION))
    ELSE IF r.net = "neterr"
    THEN Raise(s, id, Suggesting(BrokerError("IB_DISCONNECTED", 0, FALSE),
                                 NETWORK_SUGGESTION))
    ELSE _raise_http_error(s, id, r)

\* _request_json on a response _request returned: a body that is not JSON
\* raises IB_REJECTED (details carry the response's status code).
JsonFails(r) == r.body = "nonjson"

_request_json_fail(s, id, r) ==
    Raise(s, id, BrokerError("IB_REJECTED", r.status, FALSE))

\* _request_json's payload: {} for empty content and for JSON that is no
\* object.
JsonRows(r) == IF r.body = "dict" THEN r.rows ELSE <<>>
JsonPreview(r) == IF r.body = "dict" THEN r.preview ELSE NoPreview

----------------------------------------------------------------------------
\* start(), stop() and the renewal loop.

\* The end of start(): connected_at, last_error, the renewal task (created
\* at its interval sleep), the "connected" event; start() returns.
start_connected(s, t) ==
    LET k == s.pc[t].k
    IN  [Return([s EXCEPT !._connected_at = TRUE, !._renew_task = k,
                          !.pc[k] = [NotCreated EXCEPT !.op = "renew_loop", !.at = "sleep"],
                          !.auth_lost = FALSE],
                t, "ok")
            EXCEPT !.ended.log = _log_connection("connected")]

\* A faulty start(): the accounts list is requested whether or not the
\* account id is known.
start_discover_always(s, t) == _request(s, t, "discover", TRUE)

\* _discover_account_id_key as start() calls it: nothing to do when the
\* account id is known, else the accounts-list request (require_connected).
start_discover(s, t) ==
    IF s._account_id_key # "" THEN start_connected(s, t)
    ELSE _request(s, t, "discover", TRUE)

\* start() up to its first suspension.
start(s, t) ==
    LET s0 == [s EXCEPT !.pc[t] = [Idle EXCEPT !.op = "start"]]
        loaded == load_etrade_tokens(token_file)
    IN  IF ~_validate_consumer_credentials
        THEN Propagate(s0, t, Suggesting(BrokerError("INVALID_ARGS", 0, FALSE),
                                         CONSUMER_SUGGESTION))
        ELSE IF loaded = <<>>
        THEN Propagate(s0, t, Suggesting(BrokerError("IB_DISCONNECTED", 0, FALSE),
                                         AUTH_REQUIRED_SUGGESTION))
        ELSE LET k == s.n_clients + 1
                 s1 == [s0 EXCEPT !._oauth_token = loaded[1],
                                  !._oauth_token_secret = loaded[2],
                                  !._token_valid = TRUE,
                                  !._client = k, !.open = @ \cup {k},
                                  !.n_clients = k, !.pc[t].k = k]
             IN  _request(s1, t, "renew", FALSE)

\* A faulty stop(): the token-valid flag is left as it is.
stop_end_keeps_flag(s, t) == Return([s EXCEPT !._connected_at = FALSE], t, "ok")

\* The end of stop(): connected_at and the token-valid flag are cleared.
stop_end(s, t) ==
    Return([s EXCEPT !._connected_at = FALSE, !._token_valid = FALSE], t, "ok")

\* _close_client() as stop() calls it.
stop_close(s, t) ==
    IF s._client # 0
    THEN [s EXCEPT !.open = @ \ {s._client}, !.pc[t].at = "aclose"]
    ELSE stop_end(s, t)

\* stop() once the awaited renewal task has finished.
stop_joined(s, t) == stop_close([s EXCEPT !._renew_task = 0], t)

\* Task.cancel(): no effect on a finished task; otherwise the task's next
\* step raises CancelledError in it.
cancel(s, k) ==
    IF Finished(s.pc[k]) THEN s ELSE [s EXCEPT !.pc[k].cancel = TRUE]

\* stop() up to its first suspension.
stop(s, t) ==
    LET s0 == [s EXCEPT !.pc[t] = [Idle EXCEPT !.op = "stop"]]
    IN  IF s0._renew_task # 0
        THEN LET k == s0._renew_task
                 s1 == cancel(s0, k)
             IN  IF Finished(s1.pc[k]) THEN stop_joined(s1, t)
                 ELSE [s1 EXCEPT !.pc[t].at = "join", !.pc[t].k = k]
        ELSE stop_close(s0, t)

\* `self._client = None` after aclose() returned, and what follows it in
\* start() (the exception propagates) and in stop().
_close_client_done(s, t) ==
    LET s1 == [s EXCEPT !._client = 0]
    IN  IF s.pc[t].op = "start" THEN Propagate(s1, t, s.pc[t].err)
        ELSE stop_end(s1, t)

\* CancelledError in a renewal task: a queued waiter leaves the queue, a
\* holder of the rate lock releases it, and the task ends.
renew_cancelled(s, k) ==
    LET s1 == IF s.holder = k THEN release([s EXCEPT !.gap_remaining = 0])
              ELSE [s EXCEPT !.waiters = SelectSeq(@, LAMBDA w : w # k)]
    IN  [s1 EXCEPT !.pc[k].at = "cancelled", !.pc[k].cancel = FALSE]

----------------------------------------------------------------------------
\* Trading operations.

\* ensure_connected() called as an operation of its own: it has no
\* suspension point.
ensure_connected_call(s, t) ==
    LET s0 == [s EXCEPT !.pc[t] = [Idle EXCEPT !.op = "ensure_connected"]]
    IN  IF ensure_connected(s0) = NoExc THEN Return(s0, t, "ok")
        ELSE Propagate(s0, t, ensure_connected(s0))

\* The first non-empty accountIdKey of the rows, "" when there is none.
RECURSIVE first_account(_, _)
first_account(rows, i) ==
    IF i > Len(rows) THEN ""
    ELSE IF rows[i] # "" THEN rows[i]
    ELSE first_account(rows, i + 1)

\* _require_account_id_key up to its first suspension, followed by the
\* operation's own request (phase ph).
_require_account_id_key(s, t, ph) ==
    IF ensure_connected(s) # NoExc THEN Raise(s, t, ensure_connected(s))
    ELSE IF s._account_id_key = "" THEN _request(s, t, "acct", TRUE)
    ELSE _request(s, t, ph, TRUE)

\* The first request of the operation running in t once the account id is known.
FirstPhase(op) == IF op = "place_order" THEN "preview" ELSE "main"

\* The symbols quote() requests: the non-blank inputs, upper-cased and
\* stripped.
quote_symbols(symbols) ==
    LET kept == SelectSeq(symbols, LAMBDA x : strip(x) # <<>>)
    IN  [i \in 1..Len(kept) |-> strip(upper(kept[i]))]

\* _chunks: values[i:i+size] for i in range(0, len(values), size)
_chunks(values, size) ==
    LET starts == {i \in 0..(Len(values) - 1) : i % size = 0}
    IN  [k \in 1..Cardinality(starts) |->
            SubSeq(values, (k - 1) * size + 1,
                   IF k * size < Len(values) THEN k * size ELSE Len(values))]

\* A faulty quote(): every symbol is requested on its own.
quote_group_single(s, t) ==
    LET groups == _chunks(quote_symbols(s.pc[t].arg), 1)
        i == Len(s.pc[t].req) + 1
    IN  IF i > Len(groups) THEN Return(s, t, "ok")
        ELSE _request([s EXCEPT !.pc[t].sent = groups[i]], t, "quote", TRUE)

\* The loop of quote() over the groups: the request of the next group (one
\* request has been sent for each group before it), or the return of out.
quote_group(s, t) ==
    LET groups == _chunks(quote_symbols(s.pc[t].arg), QUOTE_BATCH_SIZE)
        i == Len(s.pc[t].req) + 1
    IN  IF i > Len(groups) THEN Return(s, t, "ok")
        ELSE _request([s EXCEPT !.pc[t].sent = groups[i]], t, "quote", TRUE)

\* quote() up to its first suspension.
quote(s, t, symbols) ==
    LET s0 == [s EXCEPT !.pc[t] = [Idle EXCEPT !.op = "quote", !.arg = symbols]]
    IN  IF symbols = <<>> THEN Return(s0, t, "ok")
        ELSE quote_group(s0, t)

\* quote() on the rows of a group's payload: the rows that have a symbol
\* are appended to out, the symbol upper-cased; the next group follows.
quote_rows(s, t, rows) ==
    LET kept == SelectSeq(rows, LAMBDA x : x # <<>>)
        quotes == [i \in 1..Len(kept) |-> upper(kept[i])]
    IN  quote_group([s EXCEPT !.pc[t].ret = @ \o quotes,
                              !.pc[t].rows = Append(@, rows)], t)

\* cancel_order() once the account id is known: the order id is the
\* broker's id when given, else looked up by the client id in the orders
\* list (_find_order_id_by_client_id, _list_orders_raw), which is not
\* requested for a client id of white space; without either id the call is
\* refused.
cancel_order_resolve(s, t) ==
    LET arg == s.pc[t].arg
    IN  IF ~arg.ib_order_id.none
        THEN _request([s EXCEPT !.pc[t].sent = arg.ib_order_id.str], t, "cancel", TRUE)
        ELSE IF str_or_empty(arg.client_order_id) # <<>>
        THEN IF strip(arg.client_order_id.str) = <<>>
             THEN Return([s EXCEPT !.pc[t].ret = [cancelled |-> FALSE]], t, "ok")
             ELSE _request(s, t, "orders", TRUE)
        ELSE Propagate(s, t, BrokerError("INVALID_ARGS", 0, FALSE))

\* cancel_order() on the rows of the orders list: the cancel request when
\* an order id was found, else {"cancelled": False}.
cancel_order_found(s, t, rows) ==
    LET found == find_order_id(rows, 1, strip(s.pc[t].arg.client_order_id.str))
        s1 == [s EXCEPT !.pc[t].rows = rows, !.pc[t].ph = "find"]
    IN  IF found.raised # "-" THEN Raise(s1, t, PyException(found.raised))
        ELSE IF found.value.none
        THEN Return([s1 EXCEPT !.pc[t].ret = [cancelled |-> FALSE]], t, "ok")
        ELSE _request([s1 EXCEPT !.pc[t].sent = found.value.str], t, "cancel", TRUE)

\* cancel_order() on the payload of the cancel response.
cancel_order_cancelled(s, t, values) ==
    Return([s EXCEPT !.pc[t].ret = [cancelled |-> _extract_cancelled(values, 1)]],
           t, "ok")

\* _discover_account_id_key on the accounts-list payload, and what follows
\* it in start() and in _require_account_id_key.
_discover_account_id_key(s, t, rows) ==
    LET found == first_account(rows, 1)
        s1 == [s EXCEPT !._account_id_key = IF found # "" THEN found ELSE @,
                        !.pc[t].rows = rows]
    IN  IF found = ""
        THEN Raise(s1, t, Suggesting(BrokerError("IB_REJECTED", 0, FALSE),
                                     ACCOUNT_SUGGESTION))
        ELSE IF s.pc[t].op = "start" THEN start_connected(s1, t)
        ELSE IF s.pc[t].op = "cancel_order" THEN cancel_order_resolve(s1, t)
        ELSE _request(s1, t, FirstPhase(s.pc[t].op), TRUE)

\* positions() (balance, trades and fills have the same shape: the account
\* id, then one request).
positions(s, t) ==
    _require_account_id_key(
        [s EXCEPT !.pc[t] = [Idle EXCEPT !.op = "positions"]],
        t, "main")

\* place_order() up to its first suspension.
place_order(s, t) ==
    _require_account_id_key(
        [s EXCEPT !.pc[t] = [Idle EXCEPT !.op = "place_order"]],
        t, "preview")

\* cancel_order() up to its first suspension: _require_account_id_key
\* first.
cancel_order(s, t, arg) ==
    LET s0 == [s EXCEPT !.pc[t] = [Idle EXCEPT !.op = "cancel_order", !.arg = arg]]
    IN  IF ensure_connected(s0) # NoExc THEN Raise(s0, t, ensure_connected(s0))
        ELSE IF s0._account_id_key = "" THEN _request(s0, t, "acct", TRUE)
        ELSE cancel_order_resolve(s0, t)

\* place_order() on the preview payload: the preview id, the error when
\* there is none, else the place request carrying it.
place_order_preview(s, t, payload) ==
    LET x == _extract_preview_id(payload)
        s1 == [s EXCEPT !.pc[t].ph = "extract"]
    IN  IF x.raised # "-" THEN Raise(s1, t, PyException(x.raised))
        ELSE IF x.id = "" THEN Raise(s1, t, BrokerError("IB_REJECTED", 0, FALSE))
        ELSE _request([s EXCEPT !.pc[t].pid = x.id, !.pc[t].sent = x.id],
                      t, "place", TRUE)

\* A faulty place_order(): a place response without an order id is
\* rejected, as a preview response without a preview id is.
place_order_placed_requires_id(s, t, rows) ==
    LET payload == IF rows = <<>> THEN NoPlace ELSE rows[1]
        x == _extract_order_id(payload)
        s1 == [s EXCEPT !.pc[t].rows = rows]
    IN  IF x.raised # "-" THEN Raise(s1, t, PyException(x.raised))
        ELSE IF x.id = "" THEN Raise(s1, t, BrokerError("IB_REJECTED", 0, FALSE))
        ELSE Return([s1 EXCEPT !.pc[t].ret =
                        [ib_order_id |-> _as_int(x.id),
                         status |-> place_order_status(~payload.response, payload.values)]],
                    t, "ok")

\* place_order() on the place payload (rows holds it; <<>> for the payload
\* {} of an empty or non-object body): the order id as an int or None and
\* the normalized status are returned.
place_order_placed(s, t, rows) ==
    LET payload == IF rows = <<>> THEN NoPlace ELSE rows[1]
        x == _extract_order_id(payload)
        s1 == [s EXCEPT !.pc[t].rows = rows]
    IN  IF x.raised # "-" THEN Raise(s1, t, PyException(x.raised))
        ELSE Return([s1 EXCEPT !.pc[t].ret =
                        [ib_order_id |-> _as_int(x.id),
                         status |-> place_order_status(~payload.response, payload.values)]],
                    t, "ok")

\* The task id resumes from its network call with response r.
resumed(s, id, r) ==
    LET p == s.pc[id]
    IN  IF RequestFails(r) THEN _request_fail(s, id, r)
        ELSE IF p.ph = "renew"
        THEN IF p.op = "start"
             THEN start_discover([s EXCEPT !._token_valid = TRUE], id)
             ELSE RenewEnded([s EXCEPT !._token_valid = TRUE,
                                       !.pc[id].at = "sleep"], id, "ok")
        ELSE IF JsonFails(r) THEN _request_json_fail(s, id, r)
        ELSE IF p.ph \in {"discover", "acct"}
        THEN _discover_account_id_key(s, id, JsonRows(r))
        ELSE IF p.ph = "preview" THEN place_order_preview(s, id, JsonPreview(r))
        ELSE IF p.ph = "quote" THEN quote_rows(s, id, JsonRows(r))
        ELSE IF p.ph = "orders" THEN cancel_order_found(s, id, JsonRows(r))
        ELSE IF p.ph = "cancel" THEN cancel_order_cancelled(s, id, JsonRows(r))
        ELSE IF p.ph = "place" THEN place_order_placed(s, id, JsonRows(r))
        ELSE Return(s, id, "ok")

\* The same, the history noting the body of a success response on which
\* the call ended.
resume(s, id, r) ==
    LET s1 == resumed(s, id, r)
    IN  IF s1.ended.t = id /\ ~RequestFails(r) THEN [s1 EXCEPT !.ended.body = r.body]
        ELSE s1

----------------------------------------------------------------------------
\* Actions.

\* Caller tasks are interchangeable: a new call runs in the first task
\* that has no call under way.
Free(t) ==
    /\ pc[t].op = "idle"
    /\ \A u \in Callers : u < t => pc[u].op # "idle"

Start(t) ==
    /\ Free(t)
    /\ n_clients < MaxStarts
    /\ Become(start(St, t))

\* start() in the behaviours where calls overlap.
StartOverlapping(t) ==
    /\ n_clients < MaxOverlapStarts
    /\ Start(t)

Stop(t) ==
    /\ Free(t)
    /\ Become(stop(St, t))

EnsureConnected(t) ==
    /\ Free(t)
    /\ Become(ensure_connected_call(St, t))

Positions(t) ==
    /\ Free(t)
    /\ Become(positions(St, t))

PlaceOrder(t) ==
    /\ Free(t)
    /\ Become(place_order(St, t))

\* The symbol lists quote() is called with: n entries, entry i the symbol
\* number i in lower case behind a space; with blank = 1 every entry is
\* white space, with blank > 1 every blank-th entry is empty.
Digit == <<"0", "1", "2", "3", "4", "5", "6", "7", "8", "9">>
Symbol(i) == <<" ", "s", Digit[(i \div 10) + 1], Digit[(i % 10) + 1]>>
SymbolList(n, blank) ==
    [i \in 1..n |-> IF blank = 1 THEN <<" ">>
                    ELSE IF blank > 1 /\ i % blank = 0 THEN <<>>
                    ELSE Symbol(i)]
SymbolLengths == {0, 1, QUOTE_BATCH_SIZE, QUOTE_BATCH_SIZE + 1, MaxSymbols}
SymbolLists == {SymbolList(n, blank) : n \in SymbolLengths, blank \in {0, 1, 3}}

Quote(t) ==
    /\ Free(t)
    /\ \E symbols \in SymbolLists : Become(quote(St, t, symbols))

\* The arguments cancel_order() is called with.
CancelArgs ==
    [ib_order_id : {None, Text(<<"5">>)},
     client_order_id : {None, Text(<<>>), Text(<<" ">>), Text(<<"c", "1">>),
                        Text(<<"c", "2">>)}]

CancelOrder(t) ==
    /\ Free(t)
    /\ \E arg \in CancelArgs : Become(cancel_order(St, t, arg))

\* The rate lock passed to a queued task.
LockGranted(id) ==
    /\ pc[id].at = "lockwait"
    /\ holder = id
    /\ ~pc[id].cancel
    /\ Become(_throttle_locked(St, id))

\* The gap sleep is over.
GapElapsed(id) ==
    /\ pc[id].at = "gapsleep"
    /\ gap_remaining = 0
    /\ ~pc[id].cancel
    /\ Become(_throttle_stamp(St, id))

\* The network call of task id ends.
Respond(id) ==
    /\ pc[id].at = "inflight"
    /\ ~pc[id].cancel
    /\ \E r \in Responses(pc[id].ph) : Become(resume(St, id, r))

\* aclose() returned.
CloseDone(t) ==
    /\ pc[t].at = "aclose"
    /\ Become(_close_client_done(St, t))

\* The renewal task stop() awaits has finished.
Joined(t) ==
    /\ pc[t].at = "join"
    /\ Finished(pc[pc[t].k])
    /\ Become(stop_joined(St, t))

\* The interval sleep of the renewal loop is over (RENEW_INTERVAL_SECONDS
\* is not counted in ticks: the timer may fire after any delay).
RenewWake(k) ==
    /\ pc[k].op = "renew_loop"
    /\ pc[k].at = "sleep"
    /\ ~pc[k].cancel
    /\ Become(_request(St, k, "renew", FALSE))

\* A cancelled renewal task takes its next step.
RenewCancelled(k) ==
    /\ Running(pc[k])
    /\ pc[k].cancel
    /\ Become(renew_cancelled(St, k))

Saturate(n) == IF n < MIN_REQUEST_GAP_TICKS THEN n + 1 ELSE n

\* One tick of the monotonic clock.
Tick ==
    /\ since_stamp < MIN_REQUEST_GAP_TICKS \/ since_begin < MIN_REQUEST_GAP_TICKS
          \/ gap_remaining > 0
    /\ since_stamp' = Saturate(since_stamp)
    /\ since_begin' = Saturate(since_begin)
    /\ gap_remaining' = IF gap_remaining > 0 THEN gap_remaining - 1 ELSE 0
    /\ ended' = NoCall
    /\ UNCHANGED <<cfg, token_file, _client, open, n_clients, _token_valid,
                   _oauth_token, _oauth_token_secret, _connected_at,
                   _renew_task, _account_id_key, holder, waiters, pc,
                   last_gap, auth_lost, applied>>

\* `broker auth etrade` stores a fresh token pair (save_etrade_tokens).
SaveTokens ==
    /\ token_file = MissingFile
    /\ token_file' = save_etrade_tokens(<<"t", "o", "k">>, <<"s", "e", "c">>)
    /\ ended' = NoCall
    /\ UNCHANGED <<cfg, _client, open, n_clients, _token_valid, _oauth_token,
                   _oauth_token_secret, _connected_at, _renew_task,
                   _account_id_key, holder, waiters, since_stamp, gap_remaining,
                   pc, since_begin, last_gap, auth_lost, applied>>

\* No function was applied in the last step.
NoFn == [fn |-> "-", arg |-> <<>>, out |-> <<>>, key |-> 0]

\* The provider after __init__, no task running.
InitProvider ==
    /\ _client = 0
    /\ open = {}
    /\ n_clients = 0
    /\ _token_valid = FALSE
    /\ _oauth_token = <<>>
    /\ _oauth_token_secret = <<>>
    /\ _connected_at = FALSE
    /\ _renew_task = 0
    /\ _account_id_key = cfg.account_id_key
    /\ holder = 0
    /\ waiters = <<>>
    /\ since_stamp = MIN_REQUEST_GAP_TICKS
    /\ gap_remaining = 0
    /\ pc = [id \in Tasks |-> IF id \in Callers THEN Idle ELSE NotCreated]
    /\ ended = NoCall
    /\ since_begin = MIN_REQUEST_GAP_TICKS
    /\ last_gap = MIN_REQUEST_GAP_TICKS
    /\ auth_lost = FALSE
    /\ applied = NoFn

Init ==
    /\ cfg \in [consumer_key : {<<>>, <<" ">>, <<"c", "k">>},
                consumer_secret : {<<>>, <<"c", "s">>},
                account_id_key : {"", "CFG"}]
    /\ token_file \in {MissingFile,
                       save_etrade_tokens(<<"t", "o", "k">>, <<"s", "e", "c">>)}
    /\ InitProvider

\* Calls of the caller tasks may overlap: a call may begin while another
\* is suspended.
Next ==
    \/ \E t \in Callers : StartOverlapping(t)
    \/ \E t \in Callers : Stop(t)
    \/ \E t \in Callers : Positions(t)
    \/ \E t \in Callers : PlaceOrder(t)
    \/ \E id \in Tasks : LockGranted(id)
    \/ \E id \in Tasks : GapElapsed(id)
    \/ \E id \in Tasks : Respond(id)
    \/ \E t \in Callers : CloseDone(t)
    \/ \E t \in Callers : Joined(t)
    \/ \E k \in RenewIds : RenewWake(k)
    \/ \E k \in RenewIds : RenewCancelled(k)
    \/ Tick
    \/ SaveTokens

Spec == Init /\ [][Next]_vars

\* Calls issued by one logical caller task, one after the other (a call
\* begins when the previous one has returned or raised); the renewal tasks
\* and the clock run beside it.
SeqCaller == CHOOSE t \in Callers : \A u \in Callers : t <= u

SeqNext ==
    \/ Start(SeqCaller)
    \/ Stop(SeqCaller)
    \/ EnsureConnected(SeqCaller)
    \/ Positions(SeqCaller)
    \/ PlaceOrder(SeqCaller)
    \/ \E id \in Tasks : LockGranted(id)
    \/ \E id \in Tasks : GapElapsed(id)
    \/ \E id \in Tasks : Respond(id)
    \/ CloseDone(SeqCaller)
    \/ Joined(SeqCaller)
    \/ \E k \in RenewIds : RenewWake(k)
    \/ \E k \in RenewIds : RenewCancelled(k)
    \/ Tick
    \/ SaveTokens

SpecSeq == Init /\ [][SeqNext]_vars

\* The calls of one caller task on a provider it starts once or twice and
\* does not stop, the renewal loop asleep: start() and the trading
\* operations.
OpsNext ==
    \/ Start(SeqCaller)
    \/ Positions(SeqCaller)
    \/ PlaceOrder(SeqCaller)
    \/ Quote(SeqCaller)
    \/ CancelOrder(SeqCaller)
    \/ \E id \in Tasks : GapElapsed(id)
    \/ \E id \in Tasks : Respond(id)
    \/ CloseDone(SeqCaller)
    \/ Tick
    \/ SaveTokens

SpecOps == Init /\ [][OpsNext]_vars

----------------------------------------------------------------------------
\* Module-level functions: order status vocabulary, credential file,
\* HTTP error classification

\* etrade_access_token after the exchange: the pair of the token response,
\* passed on as received.
etrade_access_token_as_received(oauth_token, oauth_token_secret) ==
    IF str_or_empty(oauth_token) = <<>> \/ str_or_empty(oauth_token_secret) = <<>>
    THEN <<>>
    ELSE <<str_or_empty(oauth_token), str_or_empty(oauth_token_secret)>>

\* etrade_access_token after the exchange: the trimmed pair of the token
\* response, <<>> when it raises IB_REJECTED for a missing token.
etrade_access_token(oauth_token, oauth_token_secret) ==
    LET token == strip(str_or_empty(oauth_token))
        secret == strip(str_or_empty(oauth_token_secret))
    IN  IF token = <<>> \/ secret = <<>> THEN <<>> ELSE <<token, secret>>

\* Inputs

\* The text with l spaces before it and r spaces after it.
Pad(l, x, r) == [i \in 1..l |-> " "] \o x \o [i \in 1..r |-> " "]

Paddings == { <<0, 0>>, <<1, 0>>, <<1, 2>> }

Cases == { "upper", "lower", "title" }

\* A key of the table written in one of the cases.
CaseVariant(key, case) ==
    CASE case = "upper" -> key
      [] case = "lower" -> [i \in 1..Len(key) |-> lower_char(key[i])]
      [] OTHER -> [i \in 1..Len(key) |-> IF i = 1 THEN key[i] ELSE lower_char(key[i])]

\* Statuses outside the table, and blank ones.
OtherStatuses ==
    { None, Text(<<>>), Text(<<" ">>), Text(<<" ", " ">>),
      Text(<<"P", "a", "r", "t", "i", "a", "l">>), Text(<<" ", "p", "a", "r", "t", "i", "a", "l", " ">>),
      Text(<<"S", "U", "B", "M", "I", "T", "T", "E", "D">>), Text(<<"P", "e", "n", "d", "i", "n", "g", "S", "u", "b", "m", "i", "t">>),
      Text(<<"P", "E", "N", "D", "I", "N", "G", " ", " ", "C", "A", "N", "C", "E", "L">>), Text(<<"O", "P", "E", "N", "E", "D">>) }

\* The status values a place response may carry under its four keys.
PlaceStatusValues ==
    { None, Text(<<>>), Text(<<" ">>), Text(<<"O", "P", "E", "N">>), Text(<<"P", "a", "r", "t", "i", "a", "l">>) }

\* Token and secret values of a token response or a credential file.
TokenValues ==
    { None, Text(<<>>), Text(<<" ">>), Text(<<"t", "o", "k">>), Text(<<" ", "t", "o", "k", " ">>) }

SecretValues ==
    { None, Text(<<"s", "e", "c">>), Text(<<"s", "e", "c", " ">>) }

\* Token values of the access token response.
ResponseTokens ==
    { None, Text(<<" ">>), Text(<<"n", "e", "w">>), Text(<<" ", "n", "e", "w", " ">>) }

\* Credential files: absent, not JSON, JSON that is no object, objects.
Files ==
    { MissingFile, File("invalid", None, None), File("not_object", None, None) }
        \cup { File("object", a, b) : a \in TokenValues, b \in SecretValues }

\* The status values of a cancel response, and the lists of those found
\* under cancelStatus, CancelStatus, status, Status that are not null, in
\* that order.
CancelStatusValues ==
    { <<" ", "O", "K", " ">>, <<"C", "A", "N", "C", "E", "L", "E", "D">>, <<"f", "a", "i", "l", "e", "d">>, <<" ", "E", "r", "r", "o", "r", " ">>, <<"p", "e", "n", "d", "i", "n", "g">> }

CancelStatusLists ==
    { <<>> } \cup { <<a>> : a \in CancelStatusValues }
        \cup { <<a, b>> : a \in CancelStatusValues, b \in CancelStatusValues }

HttpStatuses == { 400, 401, 403, 404, 409, 429, 500 }

HttpPhases == { "quote", "orders", "main" }

HttpBodies ==
    { <<>>, <<"N", "o", " ", "S", "y", "m", "b", "o", "l">>, <<"S", "e", "r", "v", "e", "r", " ", "E", "r", "r", "o", "r">> }

\* Actions

Applying(fn, arg, out, key) ==
    /\ applied' = [fn |-> fn, arg |-> arg, out |-> out, key |-> key]
    /\ ended' = NoCall
    /\ UNCHANGED <<cfg, _client, open, n_clients, _token_valid, _oauth_token,
                   _oauth_token_secret, _connected_at, _renew_task,
                   _account_id_key, holder, waiters, since_stamp, gap_remaining,
                   pc, since_begin, last_gap, auth_lost>>

\* _normalize_order_status on a key of the table in some case and padding
\* (key is its index), or on a status outside the table (key 0).
NormalizeOrderStatus ==
    /\ \/ \E i \in 1..Len(mapping), case \in Cases, pad \in Paddings :
            LET value == Text(Pad(pad[1], CaseVariant(mapping[i][1], case), pad[2]))
            IN  Applying("_normalize_order_status", value, _normalize_order_status(value), i)
       \/ \E value \in OtherStatuses :
            Applying("_normalize_order_status", value, _normalize_order_status(value), 0)
    /\ UNCHANGED token_file

\* The seven canonical status names as inputs.
CanonicalInputs ==
    { Text(Submitted), Text(Acknowledged), Text(PendingSubmit), Text(Filled),
      Text(Cancelled), Text(Rejected), Text(Inactive) }

\* _normalize_order_status applied to a status and then to its own result:
\* out is the pair of the two results.
NormalizeOrderStatusTwice ==
    /\ \E value \in CanonicalInputs \cup OtherStatuses
                        \cup { Text(Pad(1, CaseVariant(mapping[i][1], "lower"), 2)) :
                                  i \in 1..Len(mapping) } :
          LET once == _normalize_order_status(value)
          IN  Applying("_normalize_order_status twice", value,
                       <<once, _normalize_order_status(Text(once))>>, 0)
    /\ UNCHANGED token_file

\* The status place_order returns for a place response.
PlaceOrderStatus ==
    /\ \E not_a_dict \in BOOLEAN, a \in PlaceStatusValues, b \in PlaceStatusValues :
          LET values == IF not_a_dict THEN <<>> ELSE <<a, None, b, None>>
          IN  Applying("place_order_status", [not_a_dict |-> not_a_dict, values |-> values],
                       place_order_status(not_a_dict, values), 0)
    /\ UNCHANGED token_file

\* `broker auth etrade`: the access token exchange, then save_etrade_tokens
\* with the pair it returned; nothing is written when the exchange raises.
AuthEtrade ==
    \E a \in ResponseTokens, b \in SecretValues :
        LET access == etrade_access_token(a, b)
        IN  IF access = <<>>
            THEN /\ Applying("etrade_access_token", <<a, b>>, <<>>, 0)
                 /\ UNCHANGED token_file
            ELSE /\ Applying("save_etrade_tokens", access, <<>>, 0)
                 /\ token_file' = save_etrade_tokens(access[1], access[2])

\* load_etrade_tokens(token_path)
LoadEtradeTokens ==
    /\ Applying("load_etrade_tokens", token_file, load_etrade_tokens(token_file), 0)
    /\ UNCHANGED token_file

\* _extract_preview_id on a preview payload.
ExtractPreviewId ==
    /\ \E payload \in PreviewPayloads :
          Applying("_extract_preview_id", payload, _extract_preview_id(payload), 0)
    /\ UNCHANGED token_file

\* _extract_cancelled on a cancel response.
ExtractCancelled ==
    /\ \E values \in CancelStatusLists :
          Applying("_extract_cancelled", values, _extract_cancelled(values, 1), 0)
    /\ UNCHANGED token_file

\* _raise_http_error for a response with status >= 400.
RaiseHttpError ==
    /\ \E status_code \in HttpStatuses, ph \in HttpPhases, raw \in HttpBodies :
          Applying("_raise_http_error",
                   [status_code |-> status_code, operation |-> Operation(ph),
                    path |-> Path(ph), raw |-> raw],
                   http_error(status_code, Operation(ph), Path(ph), raw), 0)
    /\ UNCHANGED token_file

PureInit ==
    /\ cfg = [consumer_key |-> <<"c", "k">>, consumer_secret |-> <<"c", "s">>,
              account_id_key |-> ""]
    /\ token_file \in Files
    /\ InitProvider

PureNext ==
    \/ NormalizeOrderStatus
    \/ NormalizeOrderStatusTwice
    \/ PlaceOrderStatus
    \/ AuthEtrade
    \/ LoadEtradeTokens
    \/ ExtractPreviewId
    \/ ExtractCancelled
    \/ RaiseHttpError

SpecPure == PureInit /\ [][PureNext]_vars

----------------------------------------------------------------------------
\* Properties.

\* Disconnected, as stop() leaves the provider.
Disconnected == _client = 0 /\ _renew_task = 0 /\ ~_token_valid /\ ~_connected_at

\* The fields of the provider object.
ProviderFields == <<_client, open, n_clients, _token_valid, _oauth_token,
                    _oauth_token_secret, _connected_at, _renew_task,
                    _account_id_key>>

\* The operations that need a connected session.
TradingOps == {"positions", "place_order"}

\* Task t begins a network call in this step.
Sends(t) ==
    /\ pc'[t].at = "inflight"
    /\ pc[t].at # "inflight" \/ pc'[t].ph # pc[t].ph

\* C1: at every point where another task can observe the provider,
\* is_connected is true only when the session is fully connected: the
\* start() that built the present client has passed its initial renewal and
\* its account-id resolution (it has returned, so its renewal task exists).
\* A provider still in its Connecting phase is never seen as connected.
C1_ConnectedOnlyWhenStarted ==
    is_connected(St) => pc[_client].op = "renew_loop"

\* C2: when start() raises, at whatever step, then as the error propagates
\* _client is None, is_connected is false, the client this start() built
\* (if it got that far) has been closed, and this start() created no
\* renewal task.
C2_FailedStartLeavesNothing ==
    (ended.op = "start" /\ ended.out # "ok") =>
        /\ _client = 0
        /\ ~is_connected(St)
        /\ (ended.k # 0) => (ended.k \notin open /\ pc[ended.k].op = "none")

\* C2, its case: start() raised after it had built a client, on the
\* accounts-list step.
C2_DiscoveryFailed ==
    /\ ended.op = "start"
    /\ ended.ph = "discover"
    /\ ended.out = "IB_REJECTED"
    /\ ended.k \in RenewIds
    /\ ended.k \notin open

\* C3: stop() never raises and returns with the provider Disconnected
\* (client None, renewal task None, token-valid flag false, connected_at
\* None), whatever state it was called in; stop() called on a Disconnected
\* provider changes no field of the provider and no task.
C3_StopTotalIdempotent ==
    [][(ended'.op = "stop") =>
          /\ ended'.out = "ok"
          /\ Disconnected'
          /\ (Disconnected /\ pc[ended'.t].op = "idle") =>
                (UNCHANGED ProviderFields /\ pc' = pc)]_vars

\* C3, its case: stop() has returned after a successful start(), the
\* renewal task cancelled and finished, the client closed.
C3_StoppedAfterStart ==
    /\ ended.op = "stop"
    /\ ended.out = "ok"
    /\ \E k \in RenewIds : pc[k].at = "cancelled" /\ k \notin open
    /\ Disconnected

\* C4: from the renewal loop's 401/403 until a later start() has succeeded,
\* the session is not connected (ensure_connected() rejects every call).
C4_RejectsUntilRestarted ==
    auth_lost => ~is_connected(St)

\* C5: a renewal of the renewal loop that fails without an auth failure
\* (timeout, network error, 429, other status, unexpected exception) leaves
\* is_connected as it was, reaches no caller operation (no caller task
\* moves), and leaves the loop alive at its interval sleep, from which the
\* next renewal is attempted.
C5_NonAuthRenewFailureKeepsSession ==
    [][(ended'.op = "renew_loop" /\ ended'.out \notin {"ok", "auth_expired"}) =>
          /\ is_connected(St)' = is_connected(St)
          /\ pc'[ended'.t].at = "sleep"
          /\ \A t \in Callers : pc'[t] = pc[t]]_vars

\* C5, its case: a renewal of the loop timed out on a connected session,
\* which is still connected, the loop back at its sleep.
C5_RenewTimedOut ==
    /\ ended.op = "renew_loop"
    /\ ended.out = "TIMEOUT"
    /\ is_connected(St)
    /\ pc[ended.t].at = "sleep"

\* C6: while the session is marked invalid after an auth failure of the
\* renewal loop (and no start() has succeeded since), no caller operation
\* begins a network call, one suspended inside the provider when the flag
\* flipped included.
C6_NoRequestWhileInvalid ==
    [][(auth_lost /\ ~_token_valid) =>
          \A t \in Callers : (pc'[t].op \in TradingOps) => ~Sends(t)]_vars

\* C7: place_order calls the place endpoint only with a non-empty preview id
\* extracted from the preview response of the same invocation, the request
\* carrying exactly that id; and when the preview response yields no preview
\* id, place_order raises IB_REJECTED with no second request.
C7_PreviewPlaceLinkage ==
    /\ \A t \in Callers :
          (pc[t].op = "place_order" /\ pc[t].ph = "place") =>
              (pc[t].pid # "" /\ pc[t].sent = pc[t].pid)
    /\ (ended.op = "place_order" /\ ended.ph = "extract") =>
          ended.out = "IB_REJECTED"

\* C8: a network call begins no sooner than the minimum gap after the
\* network call before it began, whoever issued the two.
C8_MinimumGap ==
    last_gap >= MIN_REQUEST_GAP_TICKS

\* C8, its case: a call has just begun while an earlier call of another
\* task is still in flight.
C8_SecondCallBegun ==
    /\ since_begin = 0
    /\ last_gap >= MIN_REQUEST_GAP_TICKS
    /\ \E a \in Tasks, b \in Tasks :
          a # b /\ pc[a].at = "inflight" /\ pc[b].at = "inflight"

\* C9: no renewal task is running while the provider's client is closed or
\* None.
C9_NoRenewalOnClosedClient ==
    \A k \in RenewIds : Running(pc[k]) => (_client # 0 /\ _client \in open)

\* C10: at most one HTTP call of the provider is in flight at any time.
C10_OneCallInFlight ==
    Cardinality({id \in Tasks : pc[id].at = "inflight"}) <= 1

\* C11: ensure_connected() on a provider that is not connected raises
\* IB_DISCONNECTED carrying the re-authenticate suggestion; connected, it
\* returns.  Either way it sends no request and changes nothing: no field of
\* the provider, no task, neither the rate lock nor its timestamp.
C11_EnsureConnectedIsAGuard ==
    [][(ended'.op = "ensure_connected") =>
          /\ UNCHANGED ProviderFields
          /\ UNCHANGED <<pc, holder, waiters, since_stamp, since_begin, last_gap>>
          /\ ended'.req = <<>>
          /\ IF is_connected(St) THEN ended'.out = "ok"
             ELSE /\ ended'.out = "IB_DISCONNECTED"
                  /\ ended'.suggestion = AUTH_REQUIRED_SUGGESTION]_vars

\* C11, its case: ensure_connected() has raised on a provider that still
\* has its client after the renewal loop lost the authorisation.
C11_GuardRaisedAfterAuthLoss ==
    /\ ended.op = "ensure_connected"
    /\ ended.out = "IB_DISCONNECTED"
    /\ auth_lost
    /\ _client # 0

\* The consumer key or the consumer secret is blank (empty or white space).
BlankConsumerCredentials ==
    strip(cfg.consumer_key) = <<>> \/ strip(cfg.consumer_secret) = <<>>

\* start() has just ended having found blank consumer credentials or no
\* loadable token pair.
StartRefused ==
    /\ ended'.op = "start"
    /\ BlankConsumerCredentials \/ load_etrade_tokens(token_file) = <<>>

\* start() refused: it raised at once, sent no request and built no
\* client (no field of the provider changed, no task moved).
FailedImmediately ==
    /\ ended'.out # "ok"
    /\ ended'.k = 0
    /\ ended'.req = <<>>
    /\ UNCHANGED ProviderFields
    /\ UNCHANGED <<pc, holder, waiters, since_stamp, since_begin, last_gap>>

\* C13 as stated: start() with a blank consumer key or secret, or with no
\* loadable token pair, fails immediately with an error that carries the
\* re-authenticate remediation, sends no request and builds no client.
C13_RefusedStartSuggestsReauth ==
    [][StartRefused =>
          /\ FailedImmediately
          /\ ended'.suggestion = AUTH_REQUIRED_SUGGESTION]_vars

\* C13, amended: start() with a blank consumer key or secret fails
\* immediately with INVALID_ARGS carrying the remediation to set the consumer
\* credentials in the configuration, whatever the credential file holds (the
\* credentials are validated first); with consumer credentials and no
\* loadable token pair it fails immediately with IB_DISCONNECTED carrying the
\* re-authenticate remediation.  Either way it sends no request and builds
\* no client.
C13_RefusedStartByCause ==
    [][StartRefused =>
          /\ FailedImmediately
          /\ IF BlankConsumerCredentials
             THEN /\ ended'.out = "INVALID_ARGS"
                  /\ ended'.suggestion = CONSUMER_SUGGESTION
             ELSE /\ ended'.out = "IB_DISCONNECTED"
                  /\ ended'.suggestion = AUTH_REQUIRED_SUGGESTION]_vars

\* C13, its case: start() raised on a consumer key of white space only,
\* with a loadable token pair in the credential file.
C13_BlankKeyRefused ==
    /\ ended.op = "start"
    /\ ended.out = "INVALID_ARGS"
    /\ cfg.consumer_key # <<>>
    /\ strip(cfg.consumer_key) = <<>>
    /\ load_etrade_tokens(token_file) # <<>>
    /\ n_clients = 0

\* Connected, as the start() that built client k leaves the provider.
Connected(k) ==
    /\ is_connected(St)
    /\ _client = k
    /\ _connected_at
    /\ _renew_task = k
    /\ Running(pc[k])

\* The phases of the requests a call sent, in the order sent.
Phases(req) == [i \in 1..Len(req) |-> req[i].ph]

\* id is the first non-empty accountIdKey of rows, in list order.
FirstCandidate(rows, id) ==
    \E i \in 1..Len(rows) :
        /\ rows[i] # ""
        /\ rows[i] = id
        /\ \A j \in 1..(i - 1) : rows[j] = ""

\* C14: a start() that got as far as building its client (consumer
\* credentials valid, token pair loaded) with the account id known sends
\* the renewal and nothing else: it can fail only in the renewal, and
\* otherwise ends Connected with its renewal task running, having sent
\* exactly one request.  With no account id known, it ends Connected only
\* after the renewal and one accounts-list request whose rows hold a
\* non-empty accountIdKey, the first of which (in list order) it adopts.
C14_StartSkipsOrDiscovers ==
    [][(ended'.op = "start" /\ ended'.k # 0) =>
          IF _account_id_key # ""
          THEN /\ ended'.out # "ok" => ended'.ph = "renew"
               /\ ended'.out = "ok" =>
                     /\ Phases(ended'.req) = <<"renew">>
                     /\ Connected(ended.k)'
                     /\ UNCHANGED _account_id_key
          ELSE ended'.out = "ok" =>
                     /\ Phases(ended'.req) = <<"renew", "discover">>
                     /\ Connected(ended.k)'
                     /\ FirstCandidate(ended'.rows, _account_id_key')]_vars

\* C14, its case: start() with a configured account id has returned
\* after one request, the provider Connected.
C14_StartedWithConfiguredAccount ==
    /\ ended.op = "start"
    /\ ended.out = "ok"
    /\ cfg.account_id_key # ""
    /\ Len(ended.req) = 1
    /\ Connected(ended.k)

\* The trading operations.
AllTradingOps == TradingOps \cup {"quote", "cancel_order"}

\* Task t is called with a trading operation in this step (which the call
\* may end in).
Invoked(t) ==
    /\ pc[t].op = "idle"
    /\ pc'[t].op \in AllTradingOps \/ (ended'.t = t /\ ended'.op \in AllTradingOps)

\* C12: a trading operation called, with whatever arguments, while the
\* provider is not connected raises the disconnected error at once and
\* sends no request; it does not return normally.
C12_TradingNeedsConnection ==
    [][\A t \in Callers :
          (Invoked(t) /\ ~is_connected(St)) =>
              /\ ended'.t = t
              /\ ended'.out = "IB_DISCONNECTED"
              /\ ended'.req = <<>>]_vars

\* The row's client id, stripped, is wanted.
Matches(row, wanted) ==
    row.clientOrderId.k = "str" /\ strip(row.clientOrderId.str) = wanted

\* C15: cancel_order called with only a client id, having read an orders
\* list of which no row matches that id, returns {"cancelled": False}
\* without raising; the orders-list request is the only request it sent
\* (no cancel request).
C15_UnmatchedClientIdNotCancelled ==
    (/\ ended.op = "cancel_order"
     /\ ended.ph = "find"
     /\ ended.arg.ib_order_id.none
     /\ \A i \in 1..Len(ended.rows) :
           ~Matches(ended.rows[i], strip(ended.arg.client_order_id.str)))
    => /\ ended.out = "ok"
       /\ ended.ret = [cancelled |-> FALSE]
       /\ Phases(ended.req) = <<"orders">>

\* The places of the non-blank entries of a symbol list, and the entries
\* from place i on that are not blank, trimmed and upper-cased, in input
\* order.
NonBlank(symbols) == {i \in 1..Len(symbols) : strip(symbols[i]) # <<>>}
RECURSIVE Wanted(_, _)
Wanted(symbols, i) ==
    IF i > Len(symbols) THEN <<>>
    ELSE IF strip(symbols[i]) # <<>>
    THEN <<strip(upper(symbols[i]))>> \o Wanted(symbols, i + 1)
    ELSE Wanted(symbols, i + 1)

\* ceil(m / QUOTE_BATCH_SIZE)
Batches(m) == (m + QUOTE_BATCH_SIZE - 1) \div QUOTE_BATCH_SIZE

\* The requests req are the first batches of the symbol list: request k
\* carries the symbols QUOTE_BATCH_SIZE * (k - 1) + 1 .. QUOTE_BATCH_SIZE * k
\* of the wanted sequence (fewer in the last batch, never none).
Batched(req, symbols) ==
    LET wanted == Wanted(symbols, 1)
        m == Cardinality(NonBlank(symbols))
    IN  /\ Len(wanted) = m
        /\ Len(req) <= Batches(m)
        /\ \A k \in 1..Len(req) :
              LET first == QUOTE_BATCH_SIZE * (k - 1)
                  n == IF m - first < QUOTE_BATCH_SIZE THEN m - first
                       ELSE QUOTE_BATCH_SIZE
              IN  /\ req[k].ph = "quote"
                  /\ Len(req[k].sent) = n
                  /\ n \in 1..QUOTE_BATCH_SIZE
                  /\ \A j \in 1..n : req[k].sent[j] = wanted[first + j]

\* The rows with a symbol of the payloads from the k-th on, in order, the
\* symbol in upper case.
RECURSIVE RowsFrom(_, _)
RowsFrom(payloads, k) ==
    IF k > Len(payloads) THEN <<>>
    ELSE LET kept == SelectSeq(payloads[k], LAMBDA x : x # <<>>)
         IN  [i \in 1..Len(kept) |-> upper(kept[i])] \o RowsFrom(payloads, k + 1)

\* C18: the requests quote() sends are the batches of the non-blank
\* inputs, trimmed and upper-cased, in input order, at most
\* QUOTE_BATCH_SIZE symbols each, batch after batch; a call that returns
\* has sent exactly ceil(M / QUOTE_BATCH_SIZE) requests for M non-blank
\* inputs, and returns the rows of the first batch's response, then the
\* second's, and so on.
C18_QuoteBatches ==
    /\ \A t \in Callers :
          pc[t].op = "quote" => Batched(pc[t].req, pc[t].arg)
    /\ ended.op = "quote" =>
          /\ Batched(ended.req, ended.arg)
          /\ ended.out = "ok" =>
                /\ Len(ended.req) = Batches(Cardinality(NonBlank(ended.arg)))
                /\ Len(ended.rows) = Len(ended.req)
                /\ ended.ret = RowsFrom(ended.rows, 1)

\* C18, its case: quote() called with MaxSymbols symbols, none blank, has
\* returned quotes after the requests of all its batches, more than two.
C18_AllBatchesReturned ==
    /\ ended.op = "quote"
    /\ ended.out = "ok"
    /\ Cardinality(NonBlank(ended.arg)) = MaxSymbols
    /\ Len(ended.req) = Batches(MaxSymbols)
    /\ Len(ended.req) > 2
    /\ Len(ended.ret) > Len(ended.req)

\* The seven canonical order statuses.
CanonicalStatuses ==
    { Submitted, Acknowledged, PendingSubmit, Filled, Cancelled, Rejected, Inactive }

\* The status is empty or white space only, or missing.
Blank(value) == value = None \/ \A i \in 1..Len(value.str) : value.str[i] = " "

\* C16: _normalize_order_status maps every upper-, lower- or title-case
\* variant of a key of the vocabulary table, with or without surrounding
\* white space, to the canonical value the table gives for that key, which is
\* one of the seven canonical statuses; a status that is not blank and matches
\* no key is returned unchanged.
C16_StatusVocabulary ==
    applied.fn = "_normalize_order_status" =>
        /\ applied.key # 0 =>
              /\ applied.out = mapping[applied.key][2]
              /\ applied.out \in CanonicalStatuses
        /\ applied.key = 0 /\ ~Blank(applied.arg) => applied.out = applied.arg.str

\* A lower-case variant of a PendingSubmit key with white space before it
\* was normalized.
C16_PaddedLowerCaseKeyNormalized ==
    /\ applied.fn = "_normalize_order_status"
    /\ applied.key # 0
    /\ applied.arg.str # mapping[applied.key][1]
    /\ applied.arg.str[1] = " "
    /\ lower(applied.arg.str) = applied.arg.str
    /\ applied.out = PendingSubmit

\* The place response carries no status: PlaceOrderResponse is no object, or
\* none of its four status keys has a value other than null and "".
NoPlaceStatus(arg) ==
    arg.not_a_dict \/ \A i \in 1..Len(arg.values) : arg.values[i] \in {None, Text(<<>>)}

\* C17: an empty, white-space-only or missing raw order status is normalized
\* to PendingSubmit by _normalize_order_status, and place_order returns the
\* status PendingSubmit when the place response carries no status.
C17_BlankStatusIsPendingSubmit ==
    /\ applied.fn = "_normalize_order_status" /\ Blank(applied.arg) =>
          applied.out = PendingSubmit
    /\ applied.fn = "place_order_status" /\ NoPlaceStatus(applied.arg) =>
          applied.out = PendingSubmit

\* C19: load_etrade_tokens right after save_etrade_tokens returns exactly the
\* pair that was written; on a missing file, a file that is not JSON and JSON
\* that is no object it returns None.
C19_SaveThenLoad ==
    [][applied'.fn = "load_etrade_tokens" =>
          /\ applied.fn = "save_etrade_tokens" => applied'.out = applied.arg
          /\ token_file.kind # "object" => applied'.out = <<>>]_vars

\* The pair of a token response received with surrounding white space was
\* written and loaded again.
C19_WrittenPairLoaded ==
    /\ applied.fn = "load_etrade_tokens"
    /\ applied.arg = save_etrade_tokens(<<"n", "e", "w">>, <<"s", "e", "c">>)
    /\ applied.out = <<<<"n", "e", "w">>, <<"s", "e", "c">>>>

\* The error kind the classification of C20 gives for (status, path, body).
ClaimedKind(status_code, path, raw) ==
    IF status_code \in {401, 403} THEN "IB_DISCONNECTED"
    ELSE IF status_code = 429 THEN "RATE_LIMITED"
    ELSE IF /\ status_code \in 400..499
            /\ startswith(path, QuotePath)
            /\ contains(lower(raw), SymbolTerm)
    THEN "INVALID_SYMBOL"
    ELSE "IB_REJECTED"

\* C20: the error raised for a response with status >= 400 is disconnected
\* with the re-authenticate suggestion for 401 and 403, rate-limited for 429,
\* invalid-symbol for a 4xx on the quote path whose body mentions a symbol
\* term, and rejected-by-remote for every other response, a quote-path 4xx
\* without a symbol term and every 5xx included; its details carry the
\* operation name, the status code and the path.
C20_ErrorKindByStatusPathBody ==
    applied.fn = "_raise_http_error" =>
        /\ applied.out.code =
              ClaimedKind(applied.arg.status_code, applied.arg.path, applied.arg.raw)
        /\ applied.arg.status_code \in {401, 403} =>
              applied.out.suggestion = AUTH_REQUIRED_SUGGESTION
        /\ applied.out.details = [operation |-> applied.arg.operation,
                                  status_code |-> applied.arg.status_code,
                                  path |-> applied.arg.path]

\* The error codes a provider call may fail with.
ErrorCodes ==
    { "TIMEOUT", "IB_DISCONNECTED", "IB_REJECTED", "INVALID_ARGS",
      "INVALID_SYMBOL", "RATE_LIMITED" }

\* The public operations of the provider that may fail.
PublicOps == { "start", "positions", "place_order", "quote", "cancel_order" }

\* C21: a public operation (start() and the trading operations) that fails
\* raises a BrokerError whose code is TIMEOUT, IB_DISCONNECTED, IB_REJECTED,
\* INVALID_ARGS, INVALID_SYMBOL or RATE_LIMITED; no other exception leaves a
\* provider call, whatever stop() and the renewal task do while the call is
\* suspended.
C21_FailuresAreBrokerErrors ==
    (ended.op \in PublicOps /\ ended.out # "ok") => ended.out \in ErrorCodes

\* C22: once the account id is non-empty (configured or discovered) no step
\* changes it and no task sends an accounts-list request; an accounts-list
\* request is sent only while the account id is empty.
C22_AccountIdCached ==
    [][/\ _account_id_key # "" => _account_id_key' = _account_id_key
       /\ \A t \in Tasks :
             (Sends(t) /\ pc'[t].ph \in {"discover", "acct"}) =>
                 _account_id_key = ""]_vars

\* The trading operations of the model.
RequestingOps == { "positions", "place_order", "quote", "cancel_order" }

\* C23: an operation that receives a success response whose body is not JSON,
\* or is JSON but no object, raises IB_REJECTED; it does not go on with that
\* body as an empty payload.
C23_MalformedBodyRejected ==
    (ended.op \in RequestingOps /\ ended.body \in {"nonjson", "nondict"}) =>
        ended.out = "IB_REJECTED"

\* The one delivery of an event: to the audit logger, then to the event
\* callback.
DeliveredOnce(event) ==
    << [sink |-> "audit", event |-> event], [sink |-> "event_cb", event |-> event] >>

\* C24: a start() that succeeds delivers "connected" once to the audit
\* logger and once to the event callback, and the renewal loop delivers
\* "disconnected" once to each when it sees an auth failure; every other
\* step (a failed start(), a renewal that fails otherwise, stop(), any
\* operation) delivers nothing.  The audit logger is invoked before the
\* event callback.
C24_ConnectionEvents ==
    ended.log =
        IF ended.op = "start" /\ ended.out = "ok" THEN DeliveredOnce("connected")
        ELSE IF ended.op = "renew_loop" /\ ended.out = "auth_expired"
        THEN DeliveredOnce("disconnected")
        ELSE <<>>

\* C24, its case: the renewal loop of a connected session has seen an auth
\* failure and delivered "disconnected".
C24_DisconnectDelivered ==
    /\ ended.op = "renew_loop"
    /\ ended.out = "auth_expired"
    /\ Len(ended.log) = 2
    /\ _connected_at
    /\ ~_token_valid

\* C25: the cancelled flag is decided by the first status key of the cancel
\* response that is present, in the order cancelStatus, CancelStatus,
\* status, Status: failed and error (trimmed, in any case) give false, every
\* other value gives true; with no such key the flag is true.
C25_FirstStatusKeyDecides ==
    applied.fn = "_extract_cancelled" =>
        applied.out =
            IF applied.arg = <<>> THEN TRUE
            ELSE lower(strip(applied.arg[1])) \notin { <<"f", "a", "i", "l", "e", "d">>, <<"e", "r", "r", "o", "r">> }

\* The value of an entry of PreviewIds, "" when it is null or empty.
EntryValue(row) ==
    LET value == IF row.dict THEN Or(row.previewId, row.PreviewId) ELSE row.scalar
    IN  IF value.t = "str" THEN value.v ELSE ""

\* The value of the first entry among the given indices that has one, ""
\* when none has.
FirstValue(rows, among) ==
    LET having == {i \in among : EntryValue(rows[i]) # ""}
    IN  IF having = {} THEN ""
        ELSE EntryValue(rows[CHOOSE i \in having : \A j \in having : i <= j])

\* The preview id by shape precedence: object entries, then scalar entries,
\* then the top-level keys.
ByShapePrecedence(payload) ==
    LET rows == payload.PreviewIds
        objects == FirstValue(rows, {i \in 1..Len(rows) : rows[i].dict})
        scalars == FirstValue(rows, {i \in 1..Len(rows) : ~rows[i].dict})
        top == Or(payload.previewId, payload.PreviewId)
    IN  IF ~payload.response THEN ""
        ELSE IF objects # "" THEN objects
        ELSE IF scalars # "" THEN scalars
        ELSE IF top.t = "str" THEN top.v
        ELSE ""

\* C26: _extract_preview_id returns the first non-empty previewId of the
\* object entries of PreviewIds; when no object entry has one, the first
\* non-empty scalar entry; when neither has one, the top-level previewId /
\* PreviewId; none when all are absent or empty.
C26_ShapePrecedence ==
    applied.fn = "_extract_preview_id" =>
        applied.out = Extracted(ByShapePrecedence(applied.arg))

\* No request of the list was sent twice; an operation other than quote()
\* (which sends one request for each group) sent at most one request of
\* each kind: one preview, one place, one cancel, one orders list.
SentOnce(op, req) ==
    \A i \in 1..Len(req), j \in 1..Len(req) :
        i < j => /\ req[i] # req[j]
                 /\ op # "quote" => req[i].ph # req[j].ph

\* C27: within one invocation of a trading operation every request is sent
\* at most once (place_order: at most one preview and one place request,
\* cancel_order: at most one cancel request), and an invocation that ends
\* on a failed request (a timeout, a 429) ends in the phase of the last
\* request it sent: the request was not sent again and no later request of
\* the operation followed it.
C27_NoRetry ==
    /\ \A t \in Callers : pc[t].op \in RequestingOps => SentOnce(pc[t].op, pc[t].req)
    /\ ended.op \in RequestingOps =>
          /\ SentOnce(ended.op, ended.req)
          /\ ended.out \in {"TIMEOUT", "RATE_LIMITED"} =>
                /\ ended.req # <<>>
                /\ ended.req[Len(ended.req)].ph = ended.ph

\* C27, its case: place_order has raised on a place request that timed
\* out, having sent one preview and one place request.
C27_PlaceTimedOut ==
    /\ ended.op = "place_order"
    /\ ended.out = "TIMEOUT"
    /\ Phases(ended.req) = <<"preview", "place">>

\* The renewal tasks that are alive: created and not yet finished.
AliveRenewals == { k \in RenewIds : Running(pc[k]) }

\* C28: at most one renewal task of the provider is alive at any time, and
\* in the state in which stop() returns no renewal task is alive.
C28_OneRenewalTask ==
    /\ Cardinality(AliveRenewals) <= 1
    /\ (ended.op = "stop" /\ ended.out = "ok") => AliveRenewals = {}

\* The step in which the request in flight of caller t, made by a trading
\* operation, is answered with 401 or 403: the operation raises the
\* disconnected error with the advice to authenticate again.
CallerAuthRejected(t) ==
    /\ pc[t].op \in RequestingOps
    /\ pc[t].at = "inflight"
    /\ ended'.t = t
    /\ ended'.out = "IB_DISCONNECTED"
    /\ ended'.suggestion = AUTH_REQUIRED_SUGGESTION

\* A step of the renewal path (the renewal request of start() or of the
\* renewal loop is answered) or the return of stop().
RenewalOrStopStep ==
    \/ ended'.op = "stop"
    \/ \E id \in Tasks : /\ pc[id].op \in {"start", "renew_loop"}
                         /\ pc[id].ph = "renew"
                         /\ pc[id].at = "inflight"
                         /\ pc'[id] # pc[id]

\* C29: a request of a trading operation answered with 401 or 403 raises
\* the disconnected error and leaves the token-valid flag, the client, the
\* tokens and the renewal tasks as they were, so a connected provider
\* stays connected and its renewal loop keeps running; the token-valid
\* flag is cleared only by a step of the renewal path or by stop().
C29_CallerAuthErrorFrame ==
    [][/\ \A t \in Callers :
             CallerAuthRejected(t) =>
                /\ UNCHANGED << _token_valid, _client, open, _renew_task, _connected_at,
                                _oauth_token, _oauth_token_secret >>
                /\ \A k \in RenewIds : pc'[k] = pc[k]
                /\ is_connected(St) => is_connected(St)'
       /\ (_token_valid /\ ~_token_valid') => RenewalOrStopStep]_vars

\* C29, its case: positions() has raised on a 401 or 403 while the
\* provider is connected and its renewal task alive.
C29_RejectedWhileConnected ==
    /\ ended.op \in RequestingOps
    /\ ended.out = "IB_DISCONNECTED"
    /\ ended.suggestion = AUTH_REQUIRED_SUGGESTION
    /\ ended.req # <<>>
    /\ is_connected(St)
    /\ _renew_task # 0
    /\ Running(pc[_renew_task])

\* C30: at most one client that has not been closed exists at any time,
\* and in the state in which stop() returns every client built so far has
\* been closed.
C30_ClientsClosed ==
    /\ Cardinality(open) <= 1
    /\ (ended.op = "stop" /\ ended.out = "ok") => open = {}

\* The canonical statuses after which an order changes no more.
TerminalStatuses == { Filled, Cancelled, Rejected, Inactive }

\* C31: _normalize_order_status applied to its own result gives that result
\* again; each of the seven canonical names is returned as it is, so a
\* terminal canonical status is never turned into a non-terminal one.
C31_NormalizationIdempotent ==
    applied.fn = "_normalize_order_status twice" =>
        /\ applied.out[2] = applied.out[1]
        /\ applied.arg \in CanonicalInputs => applied.out[1] = applied.arg.str
        /\ (applied.arg # None /\ applied.arg.str \in TerminalStatuses) =>
              applied.out[2] \in TerminalStatuses

\* C31, its case: a padded lower-case "executed" was normalized to Filled,
\* and Filled was normalized again.
C31_FilledNormalizedAgain ==
    /\ applied.fn = "_normalize_order_status twice"
    /\ applied.out = <<Filled, Filled>>
    /\ applied.arg.str # Filled
    /\ applied.arg.str[1] = " "

\* The call ended on a success response to the place request from which no
\* order id can be taken: the body is empty or JSON that is no object, or
\* the object has no PlaceOrderResponse object or one without OrderIds,
\* orderId and OrderId.
PlacedWithoutOrderId ==
    /\ ended.op = "place_order"
    /\ ended.ph = "place"
    /\ \/ ended.body \in {"empty", "nondict"}
       \/ /\ ended.body = "dict"
          /\ ended.rows[1].OrderIds = <<>>
          /\ ended.rows[1].orderId = Null
          /\ ended.rows[1].OrderId = Null

\* C32: place_order, its preview accepted, returns normally on a success
\* response to the place request that carries no order id, with
\* ib_order_id None, and with the status Submitted when the response
\* carries no status either.
C32_PlaceReturnsWithoutOrderId ==
    PlacedWithoutOrderId =>
        /\ ended.out = "ok"
        /\ ended.ret.ib_order_id = NullInt
        /\ (ended.rows = <<>> \/ NoPlaceStatus([not_a_dict |-> ~ended.rows[1].response,
                                                 values |-> ended.rows[1].values])) =>
              ended.ret.status = Submitted

\* C32, its case: place_order has returned on an empty PlaceOrderResponse
\* object, the preview id having been sent with the place request.
C32_ReturnedWithoutOrderId ==
    /\ ended.op = "place_order"
    /\ ended.out = "ok"
    /\ ended.body = "dict"
    /\ ended.rows = <<EmptyPlace>>
    /\ Phases(ended.req) = <<"preview", "place">>
    /\ ended.ret = [ib_order_id |-> NullInt, status |-> Submitted]

\* C33: in every state the snapshot status() returns is consistent:
\* when connected is false, connected_at is None.
C33_StatusSelfConsistent ==
    ~status(St).connected => ~status(St).connected_at

====
